---- MODULE Spec2Model ----
(***************************************************************************)
(* A model of the geometry pipeline of the 3dapp repository:               *)
(*   - MeshProcessor        (src/lib/processors/mesh-processor.ts)         *)
(*   - PointCloudProcessor  (src/lib/processors/point-cloud-processor.ts   *)
(*                           and its older copy in                         *)
(*                           src/components/viewer/camera-controls.ts)     *)
(*   - ImageProcessor / VideoProcessor frame sampling                      *)
(*                          (src/lib/processors/image-processor.ts,        *)
(*                           src/lib/processors/video-processor.ts)        *)
(*   - VideoProcessor.analyzeMotion                                        *)
(*                          (src/lib/processors/video-processor.ts)        *)
(* and of the code around it:                                              *)
(*   - MediaProcessor.processFile  (src/lib/media-processor.ts)            *)
(*   - loadLumaCoreBinary   (src/lib/processors/hdr-processor.ts)          *)
(*   - CaptureService       (src/unnamed/part_002)                         *)
(* Each subsystem has its own specification (SpecMesh, SpecFill, SpecLOD,  *)
(* SpecOverlap, SpecSampler, SpecLoop, SpecMotion, SpecVideo,              *)
(* SpecPipeline, SpecLoader, SpecCapture) over the same variables; the     *)
(* variables of the other subsystems stay at their idle values.            *)
(***************************************************************************)
EXTENDS Integers, Sequences, FiniteSets, TLC

VARIABLES
    \* ---- MeshProcessor.optimizeMesh ----
    geomInput,    \* the BufferGeometry object the caller passed in
    geomNew,      \* the `simplified` BufferGeometry simplifyGeometry allocates
    geomRef,      \* which object the local `geometry` names: "input" | "new"
    simplification, \* options.processingPreferences.geometrySimplification, in percent
    boundaries,   \* fillHoles' local `boundaries`
    holeIdx,      \* position of fillHoles' for-of loop (1-based)
    meshPc,       \* position of optimizeMesh
    meshError,    \* the error optimizeMesh rejected with, "none" if none
    \* ---- PointCloudProcessor ----
    variant,      \* which copy of the class: "lib" | "viewer"
    hasWorker,    \* typeof Worker !== 'undefined'
    worker,       \* this.worker is set
    geometry,     \* this.geometry: its position and color attributes
    geomIndex,    \* this.geometry's index, set by buildSpatialIndex
    octree,       \* the positions this.octree was last built from
    levels,       \* this.levels
    quality,      \* options.quality of the running processPointCloud
    lodTarget,    \* generateLODLevels' parameter `levels`
    lodI,         \* generateLODLevels' loop counter i
    currentGeometry, \* generateLODLevels' local currentGeometry
    lodPc,        \* position of processPointCloud
    distance,     \* camera distance of the latest updateLOD
    activeLOD,    \* updateLOD's local activeLOD; -1 once this.levels changed again
    \* ---- ImageProcessor.generatePointCloud / VideoProcessor.reconstruct3DScene ----
    smpKind,      \* "image" | "video"
    smpFrames,    \* the ImageData frame(s)
    smpMotion,    \* motionVectors, each given by its length() (0 or 1)
    smpDensity,   \* options.processingPreferences.pointCloudDensity (0: absent)
    smpOut,       \* the points / colors of the returned THREE.Points
    smpPc,        \* "ready" | "done" ("loop": inside the sampling loops)
    smpF,         \* the loops taken step by step: frames.forEach's index (1-based),
    smpY,         \*   the counter y of the outer loop,
    smpX,         \*   the counter x of the inner loop
    \* ---- VideoProcessor.analyzeMotion ----
    flowFrames,   \* the `frames` argument (the red channel of each ImageData)
    flowOut,      \* the motionVectors array analyzeMotion returns
    flowPc,       \* "ready" | "done"
    \* ---- PointCloudProcessor.processPointCloud, two calls on one object ----
    calls,        \* each call: its arguments, its position, its locals of generateLODLevels
    timers,       \* the calls waiting on a setTimeout(0), in the order the timers were set
    \* ---- MediaProcessor.processFile ----
    pfType,       \* the `type` argument: "image", "video" or "model"
    pfOptions,    \* the `options` argument: quality, removeBackground, optimizeForWeb
    pfPc,         \* position of processFile
    pfI,          \* position of the for-of loop over stages (1-based)
    pfStarted,    \* the stage processors called so far, by stage name
    pfProgress,   \* the reports made through updateProgress
    pfLogged,     \* the console.error calls of the inner catch
    pfErrors,     \* the errors processFile rejected with
    pfSplat,      \* this.splats: 0 while null, else the vertexCount it was created with
    \* ---- loadLumaCoreBinary (hdr-processor.ts) ----
    isBinaryLoaded, \* the module variable isBinaryLoaded
    loadPromise,  \* the module variable loadPromise: "unset" while null, else "pending"
                  \*   or what the promise resolved to (a buffer or "null")
    wasmBinaryCache, \* the module variable wasmBinaryCache: "null" or the buffer fetched
    binFetches,   \* the fetch calls issued so far
    binPc,        \* position of the promise executor
    binCalls,     \* each call of loadLumaCoreBinary: what it returned and what its
                  \*   caller got from it ("pending" until the caller is resumed)
    binLogged,    \* the console.error calls of the catch
    \* ---- CaptureService ----
    captures,     \* this.captures: id -> the capture's `collection` field (0: undefined)
    collections,  \* this.collections: id -> the captures array of the collection
    versions,     \* this.versions: the capture ids that have an entry
    capNext,      \* the number of crypto.randomUUID() calls so far
    capError      \* the error the latest call rejected with, "none" if none

meshVars == <<geomInput, geomNew, geomRef, simplification, boundaries, holeIdx,
              meshPc, meshError>>
lodVars == <<variant, hasWorker, worker, geometry, geomIndex, octree, levels,
             quality, lodTarget, lodI, currentGeometry, lodPc, distance, activeLOD>>
smpVars == <<smpKind, smpFrames, smpMotion, smpDensity, smpOut, smpPc,
             smpF, smpY, smpX>>
flowVars == <<flowFrames, flowOut, flowPc>>
geoVars == <<meshVars, lodVars, smpVars, flowVars>>
ovlVars == <<calls, timers>>
pipeVars == <<pfType, pfOptions, pfPc, pfI, pfStarted, pfProgress, pfLogged, pfErrors,
              pfSplat>>
binVars == <<isBinaryLoaded, loadPromise, wasmBinaryCache, binFetches, binPc, binCalls,
             binLogged>>
capVars == <<captures, collections, versions, capNext, capError>>
appVars == <<ovlVars, pipeVars, binVars, capVars>>
vars == <<geoVars, appVars>>

(***************************************************************************)
(* Helpers                                                                 *)
(***************************************************************************)
Min(a, b) == IF a < b THEN a ELSE b
Max(a, b) == IF a > b THEN a ELSE b

RECURSIVE Pow2(_)
Pow2(n) == IF n = 0 THEN 1 ELSE 2 * Pow2(n - 1)

RECURSIVE Flatten(_)
Flatten(ts) == IF ts = <<>> THEN <<>> ELSE Head(ts) \o Flatten(Tail(ts))

Range(s) == {s[i] : i \in 1..Len(s)}

(***************************************************************************)
(* MeshProcessor                                                           *)
(***************************************************************************)
\* Bound: the number of triangles of an input mesh.
MaxTris == 3

\* The vertex ids of the input meshes (four vertices).
VertexIds == 0..3

\* A finite position, and the position THREE.Vector3.divideScalar(0) leaves
\* behind (0 * Infinity = NaN in every component).
Vec(x, y, z) == [x |-> x, y |-> y, z |-> z, nan |-> FALSE]
NaNVec == [x |-> 0, y |-> 0, z |-> 0, nan |-> TRUE]

\* The position attribute of the input meshes: coordinates are multiples of
\* 12, so that the centroid of 1, 2, 3 or 4 neighbours is exact (a vertex of a
\* degenerate triangle counts itself among its neighbours).
InputPositions == <<Vec(0, 0, 0), Vec(12, 0, 0), Vec(0, 12, 0), Vec(24, 24, 12)>>

\* The triangles the input meshes are made of: every non-degenerate triangle
\* over VertexIds (one rotation of each), and a degenerate one.
TriChoices ==
    {t \in VertexIds \X VertexIds \X VertexIds :
        t[1] < t[2] /\ t[1] < t[3] /\ t[2] # t[3]}
    \cup {<<0, 0, 1>>}

TriSeqs == UNION {[1..n -> TriChoices] : n \in 0..MaxTris}

\* A BufferGeometry: the position attribute, and the index (indexed = FALSE
\* when getIndex() is null).
Geom(pos, indexed, index) == [position |-> pos, indexed |-> indexed, index |-> index]
NoGeom == Geom(<<>>, FALSE, <<>>)

InputMeshes ==
    {Geom(InputPositions, TRUE, Flatten(ts)) : ts \in TriSeqs}
    \cup {Geom(InputPositions, FALSE, <<>>)}

\* Bound: the number of vertices of a boundary loop handed to fillHole.
MaxLoop == 4

\* geometrySimplification values, in percent (0: absent or 0, which is falsy;
\* -50: a ratio below 0, which the code does not reject).
SimplificationChoices == {-50, 0, 50, 100}

CurGeom == IF geomRef = "input" THEN geomInput ELSE geomNew

\* buildEdgeList: three directed edges per triangle, in index order.
RECURSIVE buildEdgeList(_)
buildEdgeList(indices) ==
    IF Len(indices) < 3 THEN <<>>
    ELSE <<<<indices[1], indices[2]>>, <<indices[2], indices[3]>>,
           <<indices[3], indices[1]>>>>
         \o buildEdgeList(SubSeq(indices, 4, Len(indices)))

\* collapseEdges: pops edges while more than targetCount * 3 remain; the merge
\* (mergeVertices) is empty and newIndices is never pushed to.
RECURSIVE collapseLoop(_, _)
collapseLoop(remainingEdges, targetCount) ==
    IF Len(remainingEdges) > targetCount * 3
    THEN collapseLoop(SubSeq(remainingEdges, 1, Len(remainingEdges) - 1), targetCount)
    ELSE remainingEdges

\* Mutant of collapseEdges: the index is rebuilt from every edge of the list,
\* collapsed or not.
collapseEdges_KeepAll(edges, targetCount) ==
    [k \in 1..Len(edges) |-> edges[k][1]]

collapseEdges(edges, targetCount) ==
    LET remainingEdges == collapseLoop(edges, targetCount)
        newIndices == <<>>
    IN  newIndices

\* simplifyGeometry: the geometry it returns (the same object when unindexed).
simplifyGeometry(g, ratioPct) ==
    IF ~g.indexed THEN g
    ELSE LET targetCount == ((Len(g.index) \div 3) * (100 - ratioPct)) \div 100
             edges == buildEdgeList(g.index)
         IN  Geom(g.position, TRUE, collapseEdges(edges, targetCount))

\* Mutant of EdgeKey: the key keeps the order of the arguments ("a,b").
EdgeKey_Directed(a, b) == <<a, b>>

\* addEdge: the key is "min,max"; the Map keeps keys in insertion order.
EdgeKey(a, b) == <<Min(a, b), Max(a, b)>>

addEdge(edges, a, b) ==
    LET key == EdgeKey(a, b)
    IN  IF key \in Range(edges.keys)
        THEN [edges EXCEPT !.count[key] = @ + 1]
        ELSE [keys |-> Append(edges.keys, key),
              count |-> [k \in Range(edges.keys) \cup {key} |->
                            IF k = key THEN 1 ELSE edges.count[k]]]

RECURSIVE countEdges(_, _)
countEdges(edges, indices) ==
    IF Len(indices) < 3 THEN edges
    ELSE LET a == indices[1]
             b == indices[2]
             c == indices[3]
         IN  countEdges(addEdge(addEdge(addEdge(edges, a, b), b, c), c, a),
                        SubSeq(indices, 4, Len(indices)))

EmptyEdgeMap == [keys |-> <<>>, count |-> [k \in {} |-> 0]]

\* findBoundaries: one two-vertex entry per edge whose count is 1.
findBoundaries(indices) ==
    LET edges == countEdges(EmptyEdgeMap, indices)
        IsBoundary(key) == edges.count[key] = 1
    IN  SelectSeq(edges.keys, IsBoundary)

\* The Uint16Array element a number becomes in setIndex.
ToIndexValue(p) == IF p.nan THEN 0 ELSE p.x % 65536

\* triangulateHole: the outcome of the call. More than 3 vertices: this.findEar
\* is not a function (TypeError). Fewer than 3: remaining[k] is undefined and
\* reading .x throws TypeError. Exactly 3: the x components are pushed.
Thrown == [ok |-> FALSE, triangles |-> <<>>]

\* Mutant of triangulateHole: a loop of fewer than 3 vertices repeats its last
\* vertex instead of reading past the end.
triangulateHole_Clamped(holeVertices) ==
    LET n == Len(holeVertices)
    IN  IF n > 3 \/ n = 0 THEN Thrown
        ELSE [ok |-> TRUE,
              triangles |-> <<ToIndexValue(holeVertices[1]),
                              ToIndexValue(holeVertices[Min(2, n)]),
                              ToIndexValue(holeVertices[Min(3, n)])>>]

triangulateHole(holeVertices) ==
    IF Len(holeVertices) # 3 THEN Thrown
    ELSE [ok |-> TRUE,
          triangles |-> <<ToIndexValue(holeVertices[1]),
                          ToIndexValue(holeVertices[2]),
                          ToIndexValue(holeVertices[3])>>]

\* fillHole: the outcome for one boundary, and the index it leaves.
fillHole(g, boundary) ==
    LET holeVertices == [k \in 1..Len(boundary) |-> g.position[boundary[k] + 1]]
        res == triangulateHole(holeVertices)
    IN  [ok |-> res.ok,
         geom |-> IF res.ok THEN [g EXCEPT !.index = @ \o res.triangles] ELSE g]

\* findVertexNeighbors (of an indexed geometry).
RECURSIVE findVertexNeighbors(_, _)
findVertexNeighbors(indices, v) ==
    IF Len(indices) < 3 THEN {}
    ELSE LET a == indices[1]
             b == indices[2]
             c == indices[3]
             here == IF a = v THEN {b, c}
                     ELSE IF b = v THEN {a, c}
                     ELSE IF c = v THEN {a, b}
                     ELSE {}
         IN  here \cup findVertexNeighbors(SubSeq(indices, 4, Len(indices)), v)

RECURSIVE SumOver(_, _, _)
SumOver(S, pos, c) ==
    IF S = {} THEN 0
    ELSE LET n == CHOOSE n \in S : TRUE
         IN  (IF c = 1 THEN pos[n + 1].x ELSE IF c = 2 THEN pos[n + 1].y ELSE pos[n + 1].z)
             + SumOver(S \ {n}, pos, c)

\* centroid.divideScalar(neighbors.length) of the neighbours' positions.
centroid(pos, neighbors) ==
    LET n == Cardinality(neighbors)
    IN  IF n = 0 THEN NaNVec
        ELSE Vec(SumOver(neighbors, pos, 1) \div n,
                 SumOver(neighbors, pos, 2) \div n,
                 SumOver(neighbors, pos, 3) \div n)

\* Mutant of smoothGeometry: the centroids are written into the position
\* attribute they are read from, vertex after vertex.
RECURSIVE smoothInPlace(_, _, _)
smoothInPlace(pos, index, i) ==
    IF i > Len(pos) THEN pos
    ELSE smoothInPlace([pos EXCEPT ![i] = centroid(pos, findVertexNeighbors(index, i - 1))],
                       index, i + 1)
smoothGeometry_InPlace(g) ==
    IF ~g.indexed /\ Len(g.position) > 0 THEN [ok |-> FALSE, geom |-> g]
    ELSE [ok |-> TRUE,
          geom |-> [g EXCEPT !.position = smoothInPlace(g.position, g.index, 1)]]

\* smoothGeometry: the outcome. Reading the index of an unindexed geometry
\* (getIndex()!.array) throws TypeError for the first vertex.
smoothGeometry(g) ==
    IF ~g.indexed /\ Len(g.position) > 0 THEN [ok |-> FALSE, geom |-> g]
    ELSE [ok |-> TRUE,
          geom |-> [g EXCEPT !.position =
                       [i \in 1..Len(g.position) |->
                           centroid(g.position, findVertexNeighbors(g.index, i - 1))]]]

\* optimizeMesh up to the call of fillHoles: mergeVertices and
\* computeVertexNormals (three.js) leave positions and index as they are.
OptimizeMesh ==
    /\ meshPc = "start"
    /\ IF simplification # 0
       THEN IF geomInput.indexed
            THEN /\ geomNew' = simplifyGeometry(geomInput, simplification)
                 /\ geomRef' = "new"
            ELSE UNCHANGED <<geomNew, geomRef>>
       ELSE UNCHANGED <<geomNew, geomRef>>
    /\ meshPc' = "fillHoles"
    /\ UNCHANGED <<geomInput, simplification, boundaries, holeIdx, meshError>>
    /\ UNCHANGED <<lodVars, smpVars, flowVars, appVars>>

\* fillHoles up to its loop.
FillHoles ==
    /\ meshPc = "fillHoles"
    /\ IF ~CurGeom.indexed
       THEN /\ meshPc' = "smooth"
            /\ UNCHANGED <<boundaries, holeIdx>>
       ELSE /\ boundaries' = findBoundaries(CurGeom.index)
            /\ holeIdx' = 1
            /\ meshPc' = IF boundaries' = <<>> THEN "smooth" ELSE "fillHole"
    /\ UNCHANGED <<geomInput, geomNew, geomRef, simplification, meshError>>
    /\ UNCHANGED <<lodVars, smpVars, flowVars, appVars>>

\* One iteration of fillHoles' loop: await this.fillHole(geometry, boundary).
FillHole ==
    /\ meshPc = "fillHole"
    /\ LET res == fillHole(CurGeom, boundaries[holeIdx])
       IN  /\ IF geomRef = "input"
              THEN geomInput' = res.geom /\ UNCHANGED geomNew
              ELSE geomNew' = res.geom /\ UNCHANGED geomInput
           /\ IF res.ok
              THEN /\ holeIdx' = holeIdx + 1
                   /\ meshPc' = IF holeIdx = Len(boundaries) THEN "smooth" ELSE "fillHole"
                   /\ UNCHANGED meshError
              ELSE /\ meshPc' = "failed"
                   /\ meshError' = "TypeError"
                   /\ UNCHANGED holeIdx
    /\ UNCHANGED <<geomRef, simplification, boundaries>>
    /\ UNCHANGED <<lodVars, smpVars, flowVars, appVars>>

\* smoothGeometry and the return of optimizeMesh.
SmoothGeometry ==
    /\ meshPc = "smooth"
    /\ LET res == smoothGeometry(CurGeom)
       IN  /\ IF geomRef = "input"
              THEN geomInput' = res.geom /\ UNCHANGED geomNew
              ELSE geomNew' = res.geom /\ UNCHANGED geomInput
           /\ meshPc' = IF res.ok THEN "done" ELSE "failed"
           /\ meshError' = IF res.ok THEN meshError ELSE "TypeError"
    /\ UNCHANGED <<geomRef, simplification, boundaries, holeIdx>>
    /\ UNCHANGED <<lodVars, smpVars, flowVars, appVars>>


(***************************************************************************)
(* PointCloudProcessor                                                     *)
(***************************************************************************)
\* Bound: the number of points of an input cloud.
MaxPoints == 8

\* The input clouds. A point is named by its place in the caller's arrays: the
\* position attribute of point k holds the triple of original index k, the
\* color attribute one of three colours.
Cloud(pos, col) == [position |-> pos, color |-> col]
InputCloud(n) == Cloud([k \in 1..n |-> k - 1], [k \in 1..n |-> (k - 1) % 3])
InputClouds == {InputCloud(n) : n \in 0..MaxPoints}
EmptyCloud == Cloud(<<>>, <<>>)

Qualities == {"low", "medium", "high"}

\* Camera distances, on both sides of every rung of updateLOD's ladder.
Distances == {0, 5, 6, 10, 11, 20, 21, 50, 51}

\* A THREE.Points of this.levels: its geometry's whole points, the number of
\* trailing floats of its arrays that form no whole point (tail), and
\* Object3D.visible (true on construction).
Level(pos, col, tail) == [position |-> pos, color |-> col, tail |-> tail, visible |-> TRUE]

\* getLODLevels (lib) and the conditional of the viewer copy.
getLODLevels(q) == IF q = "low" THEN 2 ELSE IF q = "medium" THEN 4 ELSE 6
viewerLODLevels(q) == IF q = "high" THEN 5 ELSE IF q = "medium" THEN 3 ELSE 1

\* A read of a typed array: past the end it yields undefined, stored as NaN
\* (-1 here).
At(array, k) == IF k \in 1..Len(array) THEN array[k] ELSE -1

\* Mutant of decimateGeometry: vertexCount = floor(count / ratio).
decimateGeometry_Inverted(g, ratioDen) ==
    LET vertexCount == Len(g.position) * ratioDen
        stride == ratioDen
    IN  Cloud([i \in 1..vertexCount |-> At(g.position, (i - 1) * stride + 1)],
              [i \in 1..vertexCount |-> At(g.color, (i - 1) * stride + 1)])

\* decimateGeometry with ratio = 1 / ratioDen: vertexCount = floor(count * ratio),
\* stride = floor(1 / ratio), and new point i is old point i * stride.
decimateGeometry(g, ratioDen) ==
    LET vertexCount == Len(g.position) \div ratioDen
        stride == ratioDen
    IN  Cloud([i \in 1..vertexCount |-> At(g.position, (i - 1) * stride + 1)],
              [i \in 1..vertexCount |-> At(g.color, (i - 1) * stride + 1)])

\* The level the viewer copy builds for loop counter i: arrays of
\* trunc(length / reduction) floats, float slot 3k + c taken from float
\* 3 * k * reduction + c of this.geometry (writes past the end are dropped).
viewerLevel(g, i) ==
    LET reduction == Pow2(i)
        floats == (3 * Len(g.position)) \div reduction
        whole == floats \div 3
    IN  Level([k \in 1..whole |-> g.position[(k - 1) * reduction + 1]],
              [k \in 1..whole |-> g.color[(k - 1) * reduction + 1]],
              floats % 3)

\* updateLOD's distance ladder.
selectLOD(d) ==
    IF d > 50 THEN 4
    ELSE IF d > 20 THEN 3
    ELSE IF d > 10 THEN 2
    ELSE IF d > 5 THEN 1
    ELSE 0

\* The forEach of updateLOD.
showOnly(lv, active) ==
    [i \in 1..Len(lv) |-> [lv[i] EXCEPT !.visible = ((i - 1) = active)]]

\* processPointCloud (lib) up to its first suspension: initWorker, the two
\* setAttribute calls, then either the wait for the worker's reply (quality
\* high, worker present) or generateLODLevels up to its first await.
ProcessPointCloud ==
    /\ variant = "lib"
    /\ lodPc \in {"idle", "done", "hung"}
    /\ \E cloud \in InputClouds, q \in Qualities :
        /\ worker' = (worker \/ hasWorker)
        /\ geometry' = cloud
        /\ quality' = q
        /\ IF q = "high" /\ worker'
           THEN /\ lodPc' = "noise"
                /\ UNCHANGED <<levels, lodTarget, lodI, currentGeometry, activeLOD>>
           ELSE /\ levels' = <<>>
                /\ currentGeometry' = cloud
                /\ lodTarget' = getLODLevels(q)
                /\ lodI' = 0
                /\ lodPc' = "gen"
                /\ activeLOD' = -1
    /\ UNCHANGED <<variant, hasWorker, geomIndex, octree, distance>>
    /\ UNCHANGED <<meshVars, smpVars, flowVars, appVars>>

\* The worker's reply to 'noiseReduction': onmessage calls this.updateGeometry,
\* which the class does not define (TypeError in the handler), so resolve() is
\* never reached and processPointCloud stays suspended.
WorkerReply ==
    /\ lodPc = "noise"
    /\ lodPc' = "hung"
    /\ UNCHANGED <<variant, hasWorker, worker, geometry, geomIndex, octree, levels,
                   quality, lodTarget, lodI, currentGeometry, distance, activeLOD>>
    /\ UNCHANGED <<meshVars, smpVars, flowVars, appVars>>

\* Mutant of GenerateLODLevel: the level is pushed before it is decimated.
GenerateLODLevel_PushFirst ==
    /\ variant = "lib"
    /\ lodPc = "gen"
    /\ LET simplified == decimateGeometry(currentGeometry, Pow2(lodI + 1))
       IN  /\ levels' = Append(levels, Level(currentGeometry.position,
                                             currentGeometry.color, 0))
           /\ currentGeometry' = simplified
    /\ lodI' = lodI + 1
    /\ lodPc' = IF lodI + 1 < lodTarget THEN "gen" ELSE "index"
    /\ activeLOD' = -1
    /\ UNCHANGED <<variant, hasWorker, worker, geometry, geomIndex, octree, quality,
                   lodTarget, distance>>
    /\ UNCHANGED <<meshVars, smpVars, flowVars, appVars>>

\* One iteration of generateLODLevels (lib), resumed after its setTimeout(0).
GenerateLODLevel ==
    /\ variant = "lib"
    /\ lodPc = "gen"
    /\ LET simplified == decimateGeometry(currentGeometry, Pow2(lodI + 1))
       IN  /\ levels' = Append(levels, Level(simplified.position, simplified.color, 0))
           /\ currentGeometry' = simplified
    /\ lodI' = lodI + 1
    /\ lodPc' = IF lodI + 1 < lodTarget THEN "gen" ELSE "index"
    /\ activeLOD' = -1
    /\ UNCHANGED <<variant, hasWorker, worker, geometry, geomIndex, octree, quality,
                   lodTarget, distance>>
    /\ UNCHANGED <<meshVars, smpVars, flowVars, appVars>>

\* buildSpatialIndex and the return of processPointCloud (lib). The dangling
\* statement of line 100 is left out.
BuildSpatialIndex ==
    /\ variant = "lib"
    /\ lodPc = "index"
    /\ octree' = geometry.position
    /\ geomIndex' = [k \in 1..Len(geometry.position) |-> k - 1]
    /\ lodPc' = "done"
    /\ UNCHANGED <<variant, hasWorker, worker, geometry, levels, quality, lodTarget,
                   lodI, currentGeometry, distance, activeLOD>>
    /\ UNCHANGED <<meshVars, smpVars, flowVars, appVars>>

\* processPointCloud of the viewer copy up to the first await of its
\* generateLODLevels.
ViewerProcessPointCloud ==
    /\ variant = "viewer"
    /\ lodPc \in {"idle", "done"}
    /\ \E cloud \in InputClouds, q \in Qualities :
        /\ geometry' = cloud
        /\ octree' = cloud.position
        /\ quality' = q
        /\ lodTarget' = viewerLODLevels(q)
    /\ levels' = <<>>
    /\ lodI' = 0
    /\ lodPc' = "gen"
    /\ activeLOD' = -1
    /\ UNCHANGED <<variant, hasWorker, worker, geomIndex, currentGeometry, distance>>
    /\ UNCHANGED <<meshVars, smpVars, flowVars, appVars>>

\* One iteration of the viewer copy's generateLODLevels; after the last one
\* processPointCloud returns.
ViewerGenerateLODLevel ==
    /\ variant = "viewer"
    /\ lodPc = "gen"
    /\ levels' = Append(levels, viewerLevel(geometry, lodI))
    /\ lodI' = lodI + 1
    /\ lodPc' = IF lodI + 1 < lodTarget THEN "gen" ELSE "done"
    /\ activeLOD' = -1
    /\ UNCHANGED <<variant, hasWorker, worker, geometry, geomIndex, octree, quality,
                   lodTarget, currentGeometry, distance>>
    /\ UNCHANGED <<meshVars, smpVars, flowVars, appVars>>

\* updateLOD (the same in both copies), called by the renderer at any time.
UpdateLOD ==
    /\ lodPc # "off"
    /\ \E d \in Distances :
        /\ distance' = d
        /\ activeLOD' = selectLOD(d)
        /\ levels' = showOnly(levels, selectLOD(d))
    /\ UNCHANGED <<variant, hasWorker, worker, geometry, geomIndex, octree, quality,
                   lodTarget, lodI, currentGeometry, lodPc>>
    /\ UNCHANGED <<meshVars, smpVars, flowVars, appVars>>

\* ---- Two processPointCloud calls on one PointCloudProcessor (lib) ----
\* The calls, in the order they are made.
Calls == {1, 2}

\* Call c's arguments: a cloud of n points whose position attribute names the
\* call as well as the place in the caller's arrays.
CallCloud(c, n) == Cloud([k \in 1..n |-> 100 * c + k - 1], [k \in 1..n |-> (k - 1) % 3])

\* A call not made yet.
IdleCall == [cloud |-> EmptyCloud, quality |-> "medium", pc |-> "idle", i |-> 0,
             target |-> 0, currentGeometry |-> EmptyCloud]

\* generateLODLevels up to its first await: this.levels = [], the clone of
\* this.geometry as it is at that moment, and the first setTimeout(0).
enterGenerateLODLevels(call, g) ==
    [call EXCEPT !.pc = "gen", !.i = 0, !.target = getLODLevels(call.quality),
                 !.currentGeometry = g]

\* processPointCloud, call c, up to its first suspension. Nothing in the class
\* keeps a second call from starting while the first is suspended; call 2 is
\* made at such a moment.
OverlapProcessPointCloud(c) ==
    /\ variant = "lib"
    /\ calls[c].pc = "idle"
    /\ c = 2 => calls[1].pc \in {"noise", "resume", "gen"}
    /\ \E n \in 0..MaxPoints, q \in Qualities :
        LET call == [calls[c] EXCEPT !.cloud = CallCloud(c, n), !.quality = q]
        IN  /\ worker' = (worker \/ hasWorker)
            /\ geometry' = call.cloud
            /\ IF q = "high"
               THEN /\ calls' = [calls EXCEPT ![c] =
                                    [call EXCEPT !.pc = IF worker' THEN "noise" ELSE "resume"]]
                    /\ UNCHANGED <<levels, timers>>
               ELSE /\ calls' = [calls EXCEPT ![c] = enterGenerateLODLevels(call, geometry')]
                    /\ levels' = <<>>
                    /\ timers' = Append(timers, c)
    /\ UNCHANGED <<variant, hasWorker, geomIndex, octree, quality, lodTarget, lodI,
                   currentGeometry, lodPc, distance, activeLOD>>
    /\ UNCHANGED <<meshVars, smpVars, flowVars, pipeVars, binVars, capVars>>

\* Call c resumed after `await this.applyNoiseReduction(...)`, which resolved
\* at once for want of a worker: generateLODLevels up to its first await.
OverlapResume(c) ==
    /\ calls[c].pc = "resume"
    /\ calls' = [calls EXCEPT ![c] = enterGenerateLODLevels(calls[c], geometry)]
    /\ levels' = <<>>
    /\ timers' = Append(timers, c)
    /\ UNCHANGED <<variant, hasWorker, worker, geometry, geomIndex, octree, quality,
                   lodTarget, lodI, currentGeometry, lodPc, distance, activeLOD>>
    /\ UNCHANGED <<meshVars, smpVars, flowVars, pipeVars, binVars, capVars>>

\* The worker's reply to call c's message: TypeError in onmessage (see
\* WorkerReply), the call stays suspended.
OverlapWorkerReply(c) ==
    /\ calls[c].pc = "noise"
    /\ calls' = [calls EXCEPT ![c].pc = "hung"]
    /\ UNCHANGED timers
    /\ UNCHANGED lodVars
    /\ UNCHANGED <<meshVars, smpVars, flowVars, pipeVars, binVars, capVars>>

\* One iteration of call c's generateLODLevels, when its timer is the oldest
\* one set: the push goes to whatever array this.levels names now.
OverlapGenerateLODLevel(c) ==
    /\ calls[c].pc = "gen"
    /\ timers # <<>>
    /\ Head(timers) = c
    /\ LET simplified == decimateGeometry(calls[c].currentGeometry, Pow2(calls[c].i + 1))
           more == calls[c].i + 1 < calls[c].target
       IN  /\ levels' = Append(levels, Level(simplified.position, simplified.color, 0))
           /\ calls' = [calls EXCEPT ![c].currentGeometry = simplified,
                                     ![c].i = calls[c].i + 1,
                                     ![c].pc = IF more THEN "gen" ELSE "index"]
           /\ timers' = IF more THEN Append(Tail(timers), c) ELSE Tail(timers)
    /\ UNCHANGED <<variant, hasWorker, worker, geometry, geomIndex, octree, quality,
                   lodTarget, lodI, currentGeometry, lodPc, distance, activeLOD>>
    /\ UNCHANGED <<meshVars, smpVars, flowVars, pipeVars, binVars, capVars>>

\* buildSpatialIndex and the return of call c.
OverlapBuildSpatialIndex(c) ==
    /\ calls[c].pc = "index"
    /\ octree' = geometry.position
    /\ geomIndex' = [k \in 1..Len(geometry.position) |-> k - 1]
    /\ calls' = [calls EXCEPT ![c].pc = "done"]
    /\ UNCHANGED timers
    /\ UNCHANGED <<variant, hasWorker, worker, geometry, levels, quality, lodTarget,
                   lodI, currentGeometry, lodPc, distance, activeLOD>>
    /\ UNCHANGED <<meshVars, smpVars, flowVars, pipeVars, binVars, capVars>>


(***************************************************************************)
(* Frame sampling: ImageProcessor.generatePointCloud and                   *)
(* VideoProcessor.reconstruct3DScene                                       *)
(***************************************************************************)
\* Bound: the width and the height of an input frame.
MaxDim == 4

\* The divisor of the x and y coordinates, and the factor of the depth.
Scale == 50
DepthScale == 10

\* Rationals <<numerator, denominator>> in lowest terms, denominator > 0.
RECURSIVE GCD(_, _)
GCD(a, b) == IF b = 0 THEN a ELSE GCD(b, a % b)
Abs(n) == IF n < 0 THEN -n ELSE n
Rat(n, d) ==
    LET g == GCD(Abs(n), Abs(d))
        sgn == IF d < 0 THEN -1 ELSE 1
    IN  <<(sgn * n) \div g, (sgn * d) \div g>>
R(n) == <<n, 1>>
RatAdd(p, q) == Rat(p[1] * q[2] + q[1] * p[2], p[2] * q[2])
RatSub(p, q) == Rat(p[1] * q[2] - q[1] * p[2], p[2] * q[2])
RatMul(p, q) == Rat(p[1] * q[1], p[2] * q[2])
RatDiv(p, q) == Rat(p[1] * q[2], p[2] * q[1])
RatGt(p, q) == p[1] * q[2] > q[1] * p[2]

\* Alpha bytes on both sides of 0.5 * 255 (51 is 0.2 * 255).
AlphaBytes == {51, 127, 128, 255}
AlphaTiles == [(0..1) \X (0..1) -> AlphaBytes]

\* An ImageData: data holds one RGBA pixel per place, row-major (the pixel of
\* (x, y) is bytes (y * width + x) * 4 .. + 3 of the source's array).
InputFrame(w, h, tile) ==
    [width |-> w, height |-> h,
     data |-> [p \in 1..(w * h) |->
                 LET x == (p - 1) % w
                     y == (p - 1) \div w
                 IN  [r |-> 60 * x, g |-> 60 * y, b |-> 30,
                      a |-> tile[<<x % 2, y % 2>>]]]]
InputFrames ==
    {InputFrame(w, h, tile) : w \in 1..MaxDim, h \in 1..MaxDim, tile \in AlphaTiles}

\* Bound: the number of frames of a video clip.
MaxFrames == 2

\* The frames whose pixels all have the same alpha, and the clips made of n
\* copies of one of them (a still video); a clip of 0 frames is the empty
\* `frames` array.
StillFrames ==
    {InputFrame(w, h, [p \in (0..1) \X (0..1) |-> a]) :
        w \in 1..MaxDim, h \in 1..MaxDim, a \in AlphaBytes}
StillClips == {[k \in 1..n |-> f] : f \in StillFrames, n \in 0..MaxFrames}

\* pointCloudDensity values (0: absent or 0, both falsy).
DensityChoices == {0, 1, 2, 3}

PixelAt(frame, x, y) == frame.data[(y * frame.width + x) + 1]

\* Mutant of alphaKept: the byte is normalised by 256.
alphaKept_By256(a) == RatGt(Rat(a, 256), Rat(1, 2))

\* The test `a > 0.5` on a = byte / 255.
alphaKept(a) == RatGt(Rat(a, 255), Rat(1, 2))

\* The three numbers pushed to `points` and the three pushed to `colors` for
\* the pixel (x, y); depth is absent (image) or motion.length() * 10 (video).
samplePoint(frame, x, y, isVideo, depth) ==
    LET px == PixelAt(frame, x, y)
        r == Rat(px.r, 255)
        g == Rat(px.g, 255)
        b == Rat(px.b, 255)
        mean == RatDiv(RatAdd(RatAdd(r, g), b), R(3))
    IN  [point |-> [x |-> RatDiv(RatSub(R(x), RatDiv(R(frame.width), R(2))), R(Scale)),
                    y |-> RatDiv(RatSub(RatDiv(R(frame.height), R(2)), R(y)), R(Scale)),
                    z |-> IF isVideo THEN RatMul(depth, mean) ELSE mean],
         color |-> <<r, g, b>>]

\* Mutant of sampleRow: the loop starts at x = density.
RECURSIVE sampleRow_FromDensity(_, _, _, _, _, _)
sampleRow_FromDensity(frame, x, y, density, isVideo, depth) ==
    IF ~(x + density < frame.width) THEN <<>>
    ELSE (IF alphaKept(PixelAt(frame, x + density, y).a)
          THEN <<samplePoint(frame, x + density, y, isVideo, depth)>>
          ELSE <<>>)
         \o sampleRow_FromDensity(frame, x + density, y, density, isVideo, depth)

\* The inner loop: for (x = x0; x < width; x += density).
RECURSIVE sampleRow(_, _, _, _, _, _)
sampleRow(frame, x, y, density, isVideo, depth) ==
    IF ~(x < frame.width) THEN <<>>
    ELSE (IF alphaKept(PixelAt(frame, x, y).a)
          THEN <<samplePoint(frame, x, y, isVideo, depth)>>
          ELSE <<>>)
         \o sampleRow(frame, x + density, y, density, isVideo, depth)

\* The outer loop: for (y = y0; y < height; y += density).
RECURSIVE sampleFrame(_, _, _, _, _)
sampleFrame(frame, y, density, isVideo, depth) ==
    IF ~(y < frame.height) THEN <<>>
    ELSE sampleRow(frame, 0, y, density, isVideo, depth)
         \o sampleFrame(frame, y + density, density, isVideo, depth)

\* options.processingPreferences?.pointCloudDensity || 1
densityOf(opt) == IF opt = 0 THEN 1 ELSE opt

\* Mutant of sampleFrames: every frame takes the depth of motionVectors[0].
RECURSIVE sampleFrames_FirstMotion(_, _, _, _)
sampleFrames_FirstMotion(frames, motionVectors, index, density) ==
    IF index > Len(frames) THEN <<>>
    ELSE LET motionLength == IF 1 <= Len(motionVectors)
                             THEN motionVectors[1] ELSE 0
             depth == R(motionLength * DepthScale)
         IN  sampleFrame(frames[index], 0, density, TRUE, depth)
             \o sampleFrames_FirstMotion(frames, motionVectors, index + 1, density)

\* frames.forEach of reconstruct3DScene, from frame `index` (1-based) on.
RECURSIVE sampleFrames(_, _, _, _)
sampleFrames(frames, motionVectors, index, density) ==
    IF index > Len(frames) THEN <<>>
    ELSE LET motionLength == IF index <= Len(motionVectors)
                             THEN motionVectors[index] ELSE 0
             depth == R(motionLength * DepthScale)
         IN  sampleFrame(frames[index], 0, density, TRUE, depth)
             \o sampleFrames(frames, motionVectors, index + 1, density)

Out(samples) ==
    [points |-> [k \in 1..Len(samples) |-> samples[k].point],
     colors |-> [k \in 1..Len(samples) |-> samples[k].color]]
NoOut == Out(<<>>)

\* pointCloudDensity values for the loops taken step by step: those above and
\* numbers below 0, which `|| 1` lets through.
LoopDensityChoices == DensityChoices \cup {-1, -2}

\* A loop counter below 0 stays below 0 under a negative density, and the
\* loops treat every such value alike (the pixel read is undefined, nothing is
\* pushed, the test against width or height stays true): it is kept as -1.
counterAfter(v, density) == IF v + density < 0 THEN -1 ELSE v + density

\* The pixel loops of generatePointCloud and reconstruct3DScene entered: the
\* locals are set (points = [], colors = [], density) and the first frame's
\* loops start at y = 0, x = 0.
SampleStart ==
    /\ smpPc = "ready"
    /\ smpPc' = "loop"
    /\ smpOut' = NoOut
    /\ smpF' = 1
    /\ smpY' = 0
    /\ smpX' = 0
    /\ UNCHANGED <<smpKind, smpFrames, smpMotion, smpDensity>>
    /\ UNCHANGED <<meshVars, lodVars, flowVars, appVars>>

\* One test of a loop condition and what follows it: the return once every
\* frame is done, the next frame when `y < height` fails, the next row when
\* `x < width` fails, else the body for the pixel (x, y) and `x += density`.
SampleStep ==
    /\ smpPc = "loop"
    /\ LET density == densityOf(smpDensity)
           depth == R((IF smpF <= Len(smpMotion) THEN smpMotion[smpF] ELSE 0) * DepthScale)
       IN  IF smpF > Len(smpFrames)
           THEN /\ smpPc' = "done"
                /\ UNCHANGED <<smpOut, smpF, smpY, smpX>>
           ELSE IF ~(smpY < smpFrames[smpF].height)
           THEN /\ smpF' = smpF + 1
                /\ smpY' = 0
                /\ smpX' = 0
                /\ UNCHANGED <<smpOut, smpPc>>
           ELSE IF ~(smpX < smpFrames[smpF].width)
           THEN /\ smpY' = counterAfter(smpY, density)
                /\ smpX' = 0
                /\ UNCHANGED <<smpOut, smpF, smpPc>>
           ELSE /\ smpX' = counterAfter(smpX, density)
                /\ IF smpX >= 0 /\ smpY >= 0
                      /\ alphaKept(PixelAt(smpFrames[smpF], smpX, smpY).a)
                   THEN LET sp == samplePoint(smpFrames[smpF], smpX, smpY,
                                              smpKind = "video", depth)
                        IN  smpOut' = [points |-> Append(smpOut.points, sp.point),
                                       colors |-> Append(smpOut.colors, sp.color)]
                   ELSE UNCHANGED smpOut
                /\ UNCHANGED <<smpF, smpY, smpPc>>
    /\ UNCHANGED <<smpKind, smpFrames, smpMotion, smpDensity>>
    /\ UNCHANGED <<meshVars, lodVars, flowVars, appVars>>

\* ImageProcessor.generatePointCloud
GeneratePointCloud ==
    /\ smpPc = "ready"
    /\ smpKind = "image"
    /\ smpOut' = Out(sampleFrame(smpFrames[1], 0, densityOf(smpDensity), FALSE, R(0)))
    /\ smpPc' = "done"
    /\ UNCHANGED <<smpKind, smpFrames, smpMotion, smpDensity, smpF, smpY, smpX>>
    /\ UNCHANGED <<meshVars, lodVars, flowVars, appVars>>

\* VideoProcessor.reconstruct3DScene
Reconstruct3DScene ==
    /\ smpPc = "ready"
    /\ smpKind = "video"
    /\ smpOut' = Out(sampleFrames(smpFrames, smpMotion, 1, densityOf(smpDensity)))
    /\ smpPc' = "done"
    /\ UNCHANGED <<smpKind, smpFrames, smpMotion, smpDensity, smpF, smpY, smpX>>
    /\ UNCHANGED <<meshVars, lodVars, flowVars, appVars>>

(***************************************************************************)
(* VideoProcessor.analyzeMotion and calculateOpticalFlow                   *)
(***************************************************************************)
\* Bound: the width and the height of a frame given to analyzeMotion.
MaxFlowDim == 2

\* The red channel of an ImageData, row-major (the red byte of (x, y) is
\* data[(y * width + x) * 4] in the source).
FlowFrame(w, h, red) == [width |-> w, height |-> h, data |-> red]

\* The clips given to analyzeMotion: n frames that alternate between an evenly
\* red frame (0 or 31) and a frame of pixels of red 0, 61 or 62, so that the
\* differences between neighbouring frames are 0, 30, 31, 61 and 62.
EvenReds == {0, 31}
PixelReds == {0, 61, 62}
FlowClip(w, h, n, u, red) ==
    [k \in 1..n |-> IF k % 2 = 1 THEN FlowFrame(w, h, [p \in 1..(w * h) |-> u])
                                  ELSE FlowFrame(w, h, red)]

\* THREE.Vector3.normalize(): divideScalar(length() || 1). The vector is kept
\* as its components before the division and the square of the divisor.
normalize(x, y, z) ==
    LET lengthSq == RatAdd(RatAdd(RatMul(x, x), RatMul(y, y)), RatMul(z, z))
    IN  [x |-> x, y |-> y, z |-> z,
         divisorSq |-> IF lengthSq = R(0) THEN R(1) ELSE lengthSq]

\* The two loops of calculateOpticalFlow from pixel p (1-based, row-major) on:
\* the sums <<dx, dy>> over the pixels whose diff is above the threshold.
RECURSIVE flowSums(_, _, _, _)
flowSums(frame1, frame2, p, threshold) ==
    IF p > frame1.width * frame1.height THEN <<R(0), R(0)>>
    ELSE LET x == (p - 1) % frame1.width
             y == (p - 1) \div frame1.width
             diff == Abs(At(frame2.data, p) - At(frame1.data, p))
             rest == flowSums(frame1, frame2, p + 1, threshold)
         IN  IF diff > threshold
             THEN <<RatAdd(RatSub(R(x), Rat(frame1.width, 2)), rest[1]),
                    RatAdd(RatSub(R(y), Rat(frame1.height, 2)), rest[2])>>
             ELSE rest

\* The change threshold of calculateOpticalFlow (`diff > 30`).
ChangeThreshold == 30

\* Mutant of calculateOpticalFlow: the test is `diff >= 30`.
calculateOpticalFlow_AtLeast30(frame1, frame2) ==
    LET d == flowSums(frame1, frame2, 1, ChangeThreshold - 1)
    IN  normalize(d[1], d[2], R(0))

calculateOpticalFlow(frame1, frame2) ==
    LET d == flowSums(frame1, frame2, 1, ChangeThreshold)
    IN  normalize(d[1], d[2], R(0))

\* Mutant of AnalyzeMotion: the array starts with a zero vector for the first
\* frame, so that vector k is that of frames k - 1 and k.
AnalyzeMotion_FromPredecessor ==
    /\ flowPc = "ready"
    /\ flowOut' = [i \in 1..Len(flowFrames) |->
                      IF i = 1 THEN normalize(R(0), R(0), R(0))
                      ELSE calculateOpticalFlow(flowFrames[i - 1], flowFrames[i])]
    /\ flowPc' = "done"
    /\ UNCHANGED flowFrames
    /\ UNCHANGED <<meshVars, lodVars, smpVars, appVars>>

\* analyzeMotion: one vector per pair of neighbouring frames (the loop has no
\* await in it).
AnalyzeMotion ==
    /\ flowPc = "ready"
    /\ flowOut' = [i \in 1..(Len(flowFrames) - 1) |->
                      calculateOpticalFlow(flowFrames[i], flowFrames[i + 1])]
    /\ flowPc' = "done"
    /\ UNCHANGED flowFrames
    /\ UNCHANGED <<meshVars, lodVars, smpVars, appVars>>

\* The clips of the video pipeline: opaque frames whose red bytes alternate
\* between an even red (0 or 31) and a pattern of reds 0 and 62, with green 60
\* and blue 30; and what calculateOpticalFlow reads of a frame.
VideoFrame(w, h, red) ==
    [width |-> w, height |-> h,
     data |-> [p \in 1..(w * h) |-> [r |-> red[p], g |-> 60, b |-> 30, a |-> 255]]]
VideoClip(w, h, n, u, red) ==
    [k \in 1..n |-> IF k % 2 = 1 THEN VideoFrame(w, h, [p \in 1..(w * h) |-> u])
                                  ELSE VideoFrame(w, h, red)]
RedChannel(frame) ==
    FlowFrame(frame.width, frame.height,
              [p \in 1..Len(frame.data) |-> frame.data[p].r])

\* THREE.Vector3.length() of a vector normalize() returned: 0 for the zero
\* vector, 1 for any other.
vectorLength(v) ==
    IF RatAdd(RatAdd(RatMul(v.x, v.x), RatMul(v.y, v.y)), RatMul(v.z, v.z)) = R(0)
    THEN 0 ELSE 1

\* MediaProcessor.reconstruct3DScene once its analyzeMotion has resolved: the
\* frames and the vectors are handed to VideoProcessor.reconstruct3DScene.
MediaReconstruct3DScene ==
    /\ flowPc = "done"
    /\ smpPc = "pending"
    /\ smpMotion' = [k \in 1..Len(flowOut) |-> vectorLength(flowOut[k])]
    /\ smpPc' = "ready"
    /\ UNCHANGED <<smpKind, smpFrames, smpDensity, smpOut, smpF, smpY, smpX>>
    /\ UNCHANGED <<meshVars, lodVars, flowVars, appVars>>

(***************************************************************************)
(* MediaProcessor.processFile (src/lib/media-processor.ts)                 *)
(***************************************************************************)
MediaTypes == {"image", "video", "model"}

\* this.processingStages: the stage names of each media type, in the order
\* the constructor declares them.
processingStages(type) ==
    IF type = "image"
    THEN <<"Analyzing image", "Generating point cloud", "Optimizing geometry">>
    ELSE IF type = "video"
    THEN <<"Extracting frames", "Analyzing motion", "Reconstructing 3D scene">>
    ELSE <<"Loading model", "Processing geometry">>

\* The `options` arguments, and the value of an idle processor.
ProcessingOptions ==
    [quality : Qualities, removeBackground : BOOLEAN, optimizeForWeb : BOOLEAN]
NoOptions == [quality |-> "medium", removeBackground |-> FALSE, optimizeForWeb |-> FALSE]

\* getVertexCount
getVertexCount(q) == IF q = "low" THEN 100000 ELSE IF q = "medium" THEN 300000 ELSE 500000

\* Bound: the progress events of a LumaSplatsThree before it loads or fails.
MaxSplatEvents == 2

\* A report made through updateProgress.
Report(stage, progress, message) ==
    [stage |-> stage, progress |-> progress, message |-> message]

\* The report at the top of loop iteration i (0-based): totalProgress is 33
\* for each stage that resolved, i of them.
stageReport(type, i) ==
    Report("processing",
           RatAdd(R(33 * i), Rat(33 * i, Len(processingStages(type)))),
           processingStages(type)[i + 1])

\* Whether the stage processor can resolve. Every processor of an image or a
\* video goes through analyzeImage or extractFrames, which read the free
\* variable `options` that no scope declares: ReferenceError, the promise
\* rejects. The model stages go through ModelProcessor and may go either way.
canResolve(type) == type = "model"

\* processFile up to its first await: the first report, the report of stage 0
\* and the call of its processor.
ProcessFile ==
    /\ pfPc = "idle"
    /\ pfProgress' = <<Report("uploading", R(0), "Preparing file..."), stageReport(pfType, 0)>>
    /\ pfStarted' = <<processingStages(pfType)[1]>>
    /\ pfI' = 1
    /\ pfPc' = "stage"
    /\ UNCHANGED <<pfType, pfOptions, pfLogged, pfErrors, pfSplat>>
    /\ UNCHANGED <<geoVars, ovlVars, binVars, capVars>>

\* The awaited stage processor resolved: the next iteration's report and
\* processor call, or after the last stage the report 'Creating 3D model...',
\* new LumaSplatsThree and the wait for its load or error event.
StageResolved ==
    /\ pfPc = "stage"
    /\ canResolve(pfType)
    /\ IF pfI < Len(processingStages(pfType))
       THEN /\ pfProgress' = Append(pfProgress, stageReport(pfType, pfI))
            /\ pfStarted' = Append(pfStarted, processingStages(pfType)[pfI + 1])
            /\ pfI' = pfI + 1
            /\ UNCHANGED <<pfPc, pfSplat>>
       ELSE /\ pfProgress' = Append(pfProgress,
                                    Report("processing", R(66), "Creating 3D model..."))
            /\ pfSplat' = getVertexCount(pfOptions.quality)
            /\ pfPc' = "splat"
            /\ UNCHANGED <<pfStarted, pfI>>
    /\ UNCHANGED <<pfType, pfOptions, pfLogged, pfErrors>>
    /\ UNCHANGED <<geoVars, ovlVars, binVars, capVars>>

\* Mutant of StageRejected: the inner catch logs and goes on with the loop.
StageRejected_GoOn ==
    /\ pfPc = "stage"
    /\ pfLogged' = Append(pfLogged, processingStages(pfType)[pfI])
    /\ IF pfI < Len(processingStages(pfType))
       THEN /\ pfProgress' = Append(pfProgress, stageReport(pfType, pfI))
            /\ pfStarted' = Append(pfStarted, processingStages(pfType)[pfI + 1])
            /\ pfI' = pfI + 1
            /\ UNCHANGED <<pfPc, pfSplat>>
       ELSE /\ pfProgress' = Append(pfProgress,
                                    Report("processing", R(66), "Creating 3D model..."))
            /\ pfSplat' = getVertexCount(pfOptions.quality)
            /\ pfPc' = "splat"
            /\ UNCHANGED <<pfStarted, pfI>>
    /\ UNCHANGED <<pfType, pfOptions, pfErrors>>
    /\ UNCHANGED <<geoVars, ovlVars, binVars, capVars>>

\* The awaited stage processor rejected: the inner catch logs the stage and
\* throws, the outer catch logs and throws 'Failed to process media'.
StageRejected ==
    /\ pfPc = "stage"
    /\ pfLogged' = pfLogged \o <<processingStages(pfType)[pfI], "Processing failed">>
    /\ pfErrors' = Append(pfErrors, "Failed to process media")
    /\ pfPc' = "failed"
    /\ UNCHANGED <<pfType, pfOptions, pfI, pfStarted, pfProgress, pfSplat>>
    /\ UNCHANGED <<geoVars, ovlVars, binVars, capVars>>

\* The onProgress callback given to LumaSplatsThree.
SplatProgress ==
    /\ pfPc = "splat"
    /\ Len(pfProgress) < Len(processingStages(pfType)) + 2 + MaxSplatEvents
    /\ \E percent \in {50, 100} :
           pfProgress' = Append(pfProgress,
                                Report("processing", R(percent), "Processing media..."))
    /\ UNCHANGED <<pfType, pfOptions, pfPc, pfI, pfStarted, pfLogged, pfErrors, pfSplat>>
    /\ UNCHANGED <<geoVars, ovlVars, binVars, capVars>>

\* The splat's 'load' event: optimizeForWeb if asked for, then the return.
SplatLoad ==
    /\ pfPc = "splat"
    /\ pfProgress' = IF pfOptions.optimizeForWeb
                     THEN pfProgress \o <<Report("optimizing", R(0), "Optimizing for web..."),
                                          Report("optimizing", R(100), "Optimization complete")>>
                     ELSE pfProgress
    /\ pfPc' = "done"
    /\ UNCHANGED <<pfType, pfOptions, pfI, pfStarted, pfLogged, pfErrors, pfSplat>>
    /\ UNCHANGED <<geoVars, ovlVars, binVars, capVars>>

\* The splat's 'error' event: the outer catch logs and throws.
SplatError ==
    /\ pfPc = "splat"
    /\ pfLogged' = Append(pfLogged, "Processing failed")
    /\ pfErrors' = Append(pfErrors, "Failed to process media")
    /\ pfPc' = "failed"
    /\ UNCHANGED <<pfType, pfOptions, pfI, pfStarted, pfProgress, pfSplat>>
    /\ UNCHANGED <<geoVars, ovlVars, binVars, capVars>>


(***************************************************************************)
(* loadLumaCoreBinary (src/lib/processors/hdr-processor.ts)                *)
(***************************************************************************)
\* Bound: the calls of loadLumaCoreBinary.
MaxLoads == 5

\* What response.arrayBuffer() can give: an ArrayBuffer, of length 0 or not
\* (both are objects, hence truthy).
Buffers == {"buffer of 0 bytes", "wasm"}

\* What the catch can be handed: fetch rejected, the status was not ok, or
\* arrayBuffer() rejected.
FetchFailures == {"TypeError: Failed to fetch", "Failed to fetch Luma core binary"}
ReadFailures == {"TypeError: body stream error"}

\* A call and what its caller got from it.
LoadCall(returned) == [returned |-> returned, got |-> "pending"]

\* The promise executor's catch: console.error and resolve(null).
resolveNull(error) ==
    /\ binLogged' = Append(binLogged, error)
    /\ loadPromise' = "null"
    /\ binPc' = "done"

\* Mutant of LoadLumaCoreBinary: without `if (loadPromise) return loadPromise`.
LoadLumaCoreBinary_NoPromiseCheck ==
    /\ Len(binCalls) < MaxLoads
    /\ IF isBinaryLoaded /\ wasmBinaryCache # "null"
       THEN /\ binCalls' = Append(binCalls, LoadCall("wasmBinaryCache"))
            /\ UNCHANGED <<loadPromise, binFetches, binPc>>
       ELSE /\ loadPromise' = "pending"
            /\ binFetches' = binFetches + 1
            /\ binPc' = "fetch"
            /\ binCalls' = Append(binCalls, LoadCall("loadPromise"))
    /\ UNCHANGED <<isBinaryLoaded, wasmBinaryCache, binLogged>>
    /\ UNCHANGED <<geoVars, ovlVars, pipeVars, capVars>>

\* A call of loadLumaCoreBinary up to its return: the cache if the binary is
\* loaded, else the promise of an earlier call if there is one, else a new
\* promise whose executor runs up to `await fetch(...)`.
LoadLumaCoreBinary ==
    /\ Len(binCalls) < MaxLoads
    /\ IF isBinaryLoaded /\ wasmBinaryCache # "null"
       THEN /\ binCalls' = Append(binCalls, LoadCall("wasmBinaryCache"))
            /\ UNCHANGED <<loadPromise, binFetches, binPc>>
       ELSE IF loadPromise # "unset"
       THEN /\ binCalls' = Append(binCalls, LoadCall("loadPromise"))
            /\ UNCHANGED <<loadPromise, binFetches, binPc>>
       ELSE /\ loadPromise' = "pending"
            /\ binFetches' = binFetches + 1
            /\ binPc' = "fetch"
            /\ binCalls' = Append(binCalls, LoadCall("loadPromise"))
    /\ UNCHANGED <<isBinaryLoaded, wasmBinaryCache, binLogged>>
    /\ UNCHANGED <<geoVars, ovlVars, pipeVars, capVars>>

\* fetch settled: an ok response leads to `await response.arrayBuffer()`, a
\* rejection or a response that is not ok to the catch.
FetchSettled ==
    /\ binPc = "fetch"
    /\ \/ /\ binPc' = "read"
          /\ UNCHANGED <<loadPromise, binLogged>>
       \/ \E error \in FetchFailures : resolveNull(error)
    /\ UNCHANGED <<isBinaryLoaded, wasmBinaryCache, binFetches, binCalls>>
    /\ UNCHANGED <<geoVars, ovlVars, pipeVars, capVars>>

\* response.arrayBuffer() settled: the buffer is cached, isBinaryLoaded set and
\* the promise resolved with it, or the catch resolves the promise with null.
ArrayBufferSettled ==
    /\ binPc = "read"
    /\ \/ \E wasmBinary \in Buffers :
             /\ wasmBinaryCache' = wasmBinary
             /\ isBinaryLoaded' = TRUE
             /\ loadPromise' = wasmBinary
             /\ binPc' = "done"
             /\ UNCHANGED binLogged
       \/ /\ \E error \in ReadFailures : resolveNull(error)
          /\ UNCHANGED <<wasmBinaryCache, isBinaryLoaded>>
    /\ UNCHANGED <<binFetches, binCalls>>
    /\ UNCHANGED <<geoVars, ovlVars, pipeVars, capVars>>

\* The caller that has waited longest is resumed with what its call returned:
\* the cache, or the value loadPromise has resolved to.
CallerResumed ==
    /\ \E k \in 1..Len(binCalls) :
        /\ binCalls[k].got = "pending"
        /\ \A j \in 1..(k - 1) : binCalls[j].got # "pending"
        /\ IF binCalls[k].returned = "wasmBinaryCache"
           THEN binCalls' = [binCalls EXCEPT ![k].got = wasmBinaryCache]
           ELSE /\ loadPromise # "pending"
                /\ binCalls' = [binCalls EXCEPT ![k].got = loadPromise]
    /\ UNCHANGED <<isBinaryLoaded, loadPromise, wasmBinaryCache, binFetches, binPc,
                   binLogged>>
    /\ UNCHANGED <<geoVars, ovlVars, pipeVars, capVars>>


(***************************************************************************)
(* CaptureService (src/unnamed/part_002)                                   *)
(***************************************************************************)
\* Bound: the ids crypto.randomUUID() hands out, 1, 2, ... in order (captures
\* and collections draw from the same source and never share an id).
MaxIds == 4

\* An id that names no capture and no collection.
UnknownId == 99

\* A capture's or a request's `collection` when it is undefined.
NoCollection == 0

\* Map.set and Map.delete on a map kept as a function.
MapSet(map, key, value) ==
    [k \in DOMAIN map \cup {key} |-> IF k = key THEN value ELSE map[k]]
MapDelete(map, key) == [k \in DOMAIN map \ {key} |-> map[k]]

\* Array.prototype.includes and filter(id => id !== captureId).
Includes(array, x) == \E k \in 1..Len(array) : array[k] = x
Without(array, x) == SelectSeq(array, LAMBDA id : id # x)

\* The `collection` a request can carry: none, an existing collection, or an
\* id that names no collection.
CollectionChoices == {NoCollection, UnknownId} \cup DOMAIN collections

\* createCollection
CreateCollection ==
    /\ capNext < MaxIds
    /\ capNext' = capNext + 1
    /\ collections' = MapSet(collections, capNext + 1, <<>>)
    /\ capError' = "none"
    /\ UNCHANGED <<captures, versions>>
    /\ UNCHANGED <<geoVars, ovlVars, pipeVars, binVars>>

\* createCapture: the capture is stored, then addToCollection if the request
\* names a collection, which throws if there is no such collection.
CreateCapture ==
    /\ capNext < MaxIds
    /\ capNext' = capNext + 1
    /\ \E collection \in CollectionChoices :
        /\ captures' = MapSet(captures, capNext + 1, collection)
        /\ IF collection = NoCollection
           THEN /\ capError' = "none"
                /\ UNCHANGED collections
           ELSE IF collection \notin DOMAIN collections
           THEN /\ capError' = "Collection not found"
                /\ UNCHANGED collections
           ELSE /\ capError' = "none"
                /\ collections' =
                      IF Includes(collections[collection], capNext + 1)
                      THEN collections
                      ELSE MapSet(collections, collection,
                                  Append(collections[collection], capNext + 1))
    /\ UNCHANGED versions
    /\ UNCHANGED <<geoVars, ovlVars, pipeVars, binVars>>

\* updateCapture: { ...capture, ...data } is stored; `data` may carry a
\* collection or not. this.collections is not touched.
UpdateCapture ==
    /\ \E id \in DOMAIN captures \cup {UnknownId} :
        IF id \notin DOMAIN captures
        THEN /\ capError' = "Capture not found"
             /\ UNCHANGED captures
        ELSE /\ capError' = "none"
             /\ \E hasCollection \in BOOLEAN, collection \in CollectionChoices :
                    captures' = IF hasCollection
                                THEN MapSet(captures, id, collection)
                                ELSE captures
    /\ UNCHANGED <<collections, versions, capNext>>
    /\ UNCHANGED <<geoVars, ovlVars, pipeVars, binVars>>

\* deleteCapture: removeFromCollection for the collection the capture's field
\* names now, then the capture and its versions are deleted.
DeleteCapture ==
    /\ \E id \in DOMAIN captures \cup {UnknownId} :
        IF id \notin DOMAIN captures
        THEN UNCHANGED <<captures, collections, versions>>
        ELSE /\ collections' =
                    IF captures[id] # NoCollection /\ captures[id] \in DOMAIN collections
                    THEN MapSet(collections, captures[id],
                                Without(collections[captures[id]], id))
                    ELSE collections
             /\ captures' = MapDelete(captures, id)
             /\ versions' = versions \ {id}
    /\ capError' = "none"
    /\ UNCHANGED capNext
    /\ UNCHANGED <<geoVars, ovlVars, pipeVars, binVars>>

\* createVersion: the capture gets an entry in this.versions.
CreateVersion ==
    /\ \E captureId \in DOMAIN captures \cup {UnknownId} :
        IF captureId \notin DOMAIN captures
        THEN /\ capError' = "Capture not found"
             /\ UNCHANGED versions
        ELSE /\ capError' = "none"
             /\ versions' = versions \cup {captureId}
    /\ UNCHANGED <<captures, collections, capNext>>
    /\ UNCHANGED <<geoVars, ovlVars, pipeVars, binVars>>


(***************************************************************************)
(* Specifications                                                          *)
(***************************************************************************)
\* MeshProcessor: one optimizeMesh call on an input mesh.
InitMesh ==
    /\ geomInput \in InputMeshes
    /\ geomNew = NoGeom
    /\ geomRef = "input"
    /\ simplification \in SimplificationChoices
    /\ boundaries = <<>>
    /\ holeIdx = 0
    /\ meshPc = "start"
    /\ meshError = "none"
    /\ variant = "lib"
    /\ hasWorker = FALSE
    /\ worker = FALSE
    /\ geometry = EmptyCloud
    /\ geomIndex = <<>>
    /\ octree = <<>>
    /\ levels = <<>>
    /\ quality = "medium"
    /\ lodTarget = 0
    /\ lodI = 0
    /\ currentGeometry = EmptyCloud
    /\ lodPc = "off"
    /\ distance = 0
    /\ activeLOD = -1
    /\ smpKind = "image"
    /\ smpFrames = <<>>
    /\ smpMotion = <<>>
    /\ smpDensity = 0
    /\ smpOut = NoOut
    /\ smpPc = "off"
    /\ smpF = 0
    /\ smpY = 0
    /\ smpX = 0
    /\ flowFrames = <<>>
    /\ flowOut = <<>>
    /\ flowPc = "off"
    /\ captures = <<>>
    /\ collections = <<>>
    /\ versions = {}
    /\ capNext = 0
    /\ capError = "none"
    /\ isBinaryLoaded = FALSE
    /\ loadPromise = "unset"
    /\ wasmBinaryCache = "null"
    /\ binFetches = 0
    /\ binPc = "off"
    /\ binCalls = <<>>
    /\ binLogged = <<>>
    /\ pfType = "model"
    /\ pfOptions = NoOptions
    /\ pfPc = "off"
    /\ pfI = 0
    /\ pfStarted = <<>>
    /\ pfProgress = <<>>
    /\ pfLogged = <<>>
    /\ pfErrors = <<>>
    /\ pfSplat = 0
    /\ calls = <<>>
    /\ timers = <<>>

NextMesh == OptimizeMesh \/ FillHoles \/ FillHole \/ SmoothGeometry
SpecMesh == InitMesh /\ [][NextMesh]_vars

\* fillHoles' loop on its own: fillHole called for one or two boundary loops
\* of 2..MaxLoop different vertices, on an indexed mesh of at most one
\* triangle.
InitFill ==
    /\ geomInput \in {g \in InputMeshes : g.indexed /\ Len(g.index) <= 3}
    /\ geomNew = NoGeom
    /\ geomRef = "input"
    /\ simplification = 0
    /\ \E n \in 2..MaxLoop : \E loop \in [1..n -> VertexIds] :
          /\ \A j, k \in 1..n : loop[j] = loop[k] => j = k
          /\ boundaries \in {<<loop>>, <<loop, <<0, 1, 2>>>>}
    /\ holeIdx = 1
    /\ meshPc = "fillHole"
    /\ meshError = "none"
    /\ variant = "lib"
    /\ hasWorker = FALSE
    /\ worker = FALSE
    /\ geometry = EmptyCloud
    /\ geomIndex = <<>>
    /\ octree = <<>>
    /\ levels = <<>>
    /\ quality = "medium"
    /\ lodTarget = 0
    /\ lodI = 0
    /\ currentGeometry = EmptyCloud
    /\ lodPc = "off"
    /\ distance = 0
    /\ activeLOD = -1
    /\ smpKind = "image"
    /\ smpFrames = <<>>
    /\ smpMotion = <<>>
    /\ smpDensity = 0
    /\ smpOut = NoOut
    /\ smpPc = "off"
    /\ smpF = 0
    /\ smpY = 0
    /\ smpX = 0
    /\ flowFrames = <<>>
    /\ flowOut = <<>>
    /\ flowPc = "off"
    /\ captures = <<>>
    /\ collections = <<>>
    /\ versions = {}
    /\ capNext = 0
    /\ capError = "none"
    /\ isBinaryLoaded = FALSE
    /\ loadPromise = "unset"
    /\ wasmBinaryCache = "null"
    /\ binFetches = 0
    /\ binPc = "off"
    /\ binCalls = <<>>
    /\ binLogged = <<>>
    /\ pfType = "model"
    /\ pfOptions = NoOptions
    /\ pfPc = "off"
    /\ pfI = 0
    /\ pfStarted = <<>>
    /\ pfProgress = <<>>
    /\ pfLogged = <<>>
    /\ pfErrors = <<>>
    /\ pfSplat = 0
    /\ calls = <<>>
    /\ timers = <<>>

NextFill == FillHole
SpecFill == InitFill /\ [][NextFill]_vars

\* PointCloudProcessor: the object after construction; processPointCloud calls
\* one at a time, updateLOD at any time.
InitLOD ==
    /\ variant \in {"lib", "viewer"}
    /\ hasWorker \in BOOLEAN
    /\ worker = FALSE
    /\ geometry = EmptyCloud
    /\ geomIndex = <<>>
    /\ octree = <<>>
    /\ levels = <<>>
    /\ quality = "medium"
    /\ lodTarget = 0
    /\ lodI = 0
    /\ currentGeometry = EmptyCloud
    /\ lodPc = "idle"
    /\ distance = 0
    /\ activeLOD = -1
    /\ geomInput = NoGeom
    /\ geomNew = NoGeom
    /\ geomRef = "input"
    /\ simplification = 0
    /\ boundaries = <<>>
    /\ holeIdx = 0
    /\ meshPc = "off"
    /\ meshError = "none"
    /\ smpKind = "image"
    /\ smpFrames = <<>>
    /\ smpMotion = <<>>
    /\ smpDensity = 0
    /\ smpOut = NoOut
    /\ smpPc = "off"
    /\ smpF = 0
    /\ smpY = 0
    /\ smpX = 0
    /\ flowFrames = <<>>
    /\ flowOut = <<>>
    /\ flowPc = "off"
    /\ captures = <<>>
    /\ collections = <<>>
    /\ versions = {}
    /\ capNext = 0
    /\ capError = "none"
    /\ isBinaryLoaded = FALSE
    /\ loadPromise = "unset"
    /\ wasmBinaryCache = "null"
    /\ binFetches = 0
    /\ binPc = "off"
    /\ binCalls = <<>>
    /\ binLogged = <<>>
    /\ pfType = "model"
    /\ pfOptions = NoOptions
    /\ pfPc = "off"
    /\ pfI = 0
    /\ pfStarted = <<>>
    /\ pfProgress = <<>>
    /\ pfLogged = <<>>
    /\ pfErrors = <<>>
    /\ pfSplat = 0
    /\ calls = <<>>
    /\ timers = <<>>

NextLOD ==
    \/ ProcessPointCloud
    \/ WorkerReply
    \/ GenerateLODLevel
    \/ BuildSpatialIndex
    \/ ViewerProcessPointCloud
    \/ ViewerGenerateLODLevel
    \/ UpdateLOD
SpecLOD == InitLOD /\ [][NextLOD]_vars

\* Frame sampling: one call on one input (an image, or a clip and the motion
\* vectors of its first frames).
InitSampler ==
    /\ smpKind \in {"image", "video"}
    /\ smpFrames \in {<<f>> : f \in InputFrames}
                     \cup (IF smpKind = "video" THEN StillClips ELSE {})
    /\ smpMotion \in (IF smpKind = "image" THEN {<<>>} ELSE {<<>>, <<0>>, <<1>>})
    /\ smpDensity \in DensityChoices
    /\ smpOut = NoOut
    /\ smpPc = "ready"
    /\ smpF = 0
    /\ smpY = 0
    /\ smpX = 0
    /\ geomInput = NoGeom
    /\ geomNew = NoGeom
    /\ geomRef = "input"
    /\ simplification = 0
    /\ boundaries = <<>>
    /\ holeIdx = 0
    /\ meshPc = "off"
    /\ meshError = "none"
    /\ variant = "lib"
    /\ hasWorker = FALSE
    /\ worker = FALSE
    /\ geometry = EmptyCloud
    /\ geomIndex = <<>>
    /\ octree = <<>>
    /\ levels = <<>>
    /\ quality = "medium"
    /\ lodTarget = 0
    /\ lodI = 0
    /\ currentGeometry = EmptyCloud
    /\ lodPc = "off"
    /\ distance = 0
    /\ activeLOD = -1
    /\ flowFrames = <<>>
    /\ flowOut = <<>>
    /\ flowPc = "off"
    /\ captures = <<>>
    /\ collections = <<>>
    /\ versions = {}
    /\ capNext = 0
    /\ capError = "none"
    /\ isBinaryLoaded = FALSE
    /\ loadPromise = "unset"
    /\ wasmBinaryCache = "null"
    /\ binFetches = 0
    /\ binPc = "off"
    /\ binCalls = <<>>
    /\ binLogged = <<>>
    /\ pfType = "model"
    /\ pfOptions = NoOptions
    /\ pfPc = "off"
    /\ pfI = 0
    /\ pfStarted = <<>>
    /\ pfProgress = <<>>
    /\ pfLogged = <<>>
    /\ pfErrors = <<>>
    /\ pfSplat = 0
    /\ calls = <<>>
    /\ timers = <<>>

NextSampler == GeneratePointCloud \/ Reconstruct3DScene
SpecSampler == InitSampler /\ [][NextSampler]_vars

\* analyzeMotion: one call on one clip.
InitMotion ==
    /\ \E w \in 1..MaxFlowDim, h \in 1..MaxFlowDim, n \in 0..MaxFrames, u \in EvenReds :
          \E red \in [1..(w * h) -> PixelReds] : flowFrames = FlowClip(w, h, n, u, red)
    /\ flowOut = <<>>
    /\ flowPc = "ready"
    /\ captures = <<>>
    /\ collections = <<>>
    /\ versions = {}
    /\ capNext = 0
    /\ capError = "none"
    /\ isBinaryLoaded = FALSE
    /\ loadPromise = "unset"
    /\ wasmBinaryCache = "null"
    /\ binFetches = 0
    /\ binPc = "off"
    /\ binCalls = <<>>
    /\ binLogged = <<>>
    /\ pfType = "model"
    /\ pfOptions = NoOptions
    /\ pfPc = "off"
    /\ pfI = 0
    /\ pfStarted = <<>>
    /\ pfProgress = <<>>
    /\ pfLogged = <<>>
    /\ pfErrors = <<>>
    /\ pfSplat = 0
    /\ calls = <<>>
    /\ timers = <<>>
    /\ geomInput = NoGeom
    /\ geomNew = NoGeom
    /\ geomRef = "input"
    /\ simplification = 0
    /\ boundaries = <<>>
    /\ holeIdx = 0
    /\ meshPc = "off"
    /\ meshError = "none"
    /\ variant = "lib"
    /\ hasWorker = FALSE
    /\ worker = FALSE
    /\ geometry = EmptyCloud
    /\ geomIndex = <<>>
    /\ octree = <<>>
    /\ levels = <<>>
    /\ quality = "medium"
    /\ lodTarget = 0
    /\ lodI = 0
    /\ currentGeometry = EmptyCloud
    /\ lodPc = "off"
    /\ distance = 0
    /\ activeLOD = -1
    /\ smpKind = "image"
    /\ smpFrames = <<>>
    /\ smpMotion = <<>>
    /\ smpDensity = 0
    /\ smpOut = NoOut
    /\ smpPc = "off"
    /\ smpF = 0
    /\ smpY = 0
    /\ smpX = 0

NextMotion == AnalyzeMotion
SpecMotion == InitMotion /\ [][NextMotion]_vars

\* The video pipeline: analyzeMotion on a clip, then reconstruct3DScene on the
\* clip and the vectors.
InitVideo ==
    /\ smpKind = "video"
    /\ \E w \in 1..MaxFlowDim, h \in 1..MaxFlowDim, n \in 0..MaxFrames, u \in EvenReds :
          \E red \in [1..(w * h) -> {0, 62}] : smpFrames = VideoClip(w, h, n, u, red)
    /\ smpMotion = <<>>
    /\ smpDensity = 0
    /\ smpOut = NoOut
    /\ smpPc = "pending"
    /\ smpF = 0
    /\ smpY = 0
    /\ smpX = 0
    /\ flowFrames = [k \in 1..Len(smpFrames) |-> RedChannel(smpFrames[k])]
    /\ flowOut = <<>>
    /\ flowPc = "ready"
    /\ captures = <<>>
    /\ collections = <<>>
    /\ versions = {}
    /\ capNext = 0
    /\ capError = "none"
    /\ isBinaryLoaded = FALSE
    /\ loadPromise = "unset"
    /\ wasmBinaryCache = "null"
    /\ binFetches = 0
    /\ binPc = "off"
    /\ binCalls = <<>>
    /\ binLogged = <<>>
    /\ pfType = "model"
    /\ pfOptions = NoOptions
    /\ pfPc = "off"
    /\ pfI = 0
    /\ pfStarted = <<>>
    /\ pfProgress = <<>>
    /\ pfLogged = <<>>
    /\ pfErrors = <<>>
    /\ pfSplat = 0
    /\ calls = <<>>
    /\ timers = <<>>
    /\ geomInput = NoGeom
    /\ geomNew = NoGeom
    /\ geomRef = "input"
    /\ simplification = 0
    /\ boundaries = <<>>
    /\ holeIdx = 0
    /\ meshPc = "off"
    /\ meshError = "none"
    /\ variant = "lib"
    /\ hasWorker = FALSE
    /\ worker = FALSE
    /\ geometry = EmptyCloud
    /\ geomIndex = <<>>
    /\ octree = <<>>
    /\ levels = <<>>
    /\ quality = "medium"
    /\ lodTarget = 0
    /\ lodI = 0
    /\ currentGeometry = EmptyCloud
    /\ lodPc = "off"
    /\ distance = 0
    /\ activeLOD = -1

NextVideo == AnalyzeMotion \/ MediaReconstruct3DScene \/ Reconstruct3DScene
SpecVideo == InitVideo /\ [][NextVideo]_vars

\* Frame sampling with its loops taken step by step: one call on an image or
\* a clip, for densities that include numbers below 0.
InitLoop ==
    /\ smpKind \in {"image", "video"}
    /\ smpFrames \in (IF smpKind = "image" THEN {<<f>> : f \in StillFrames}
                                           ELSE StillClips)
    /\ smpMotion \in (IF smpKind = "image" THEN {<<>>} ELSE {<<>>, <<1>>})
    /\ smpDensity \in LoopDensityChoices
    /\ smpOut = NoOut
    /\ smpPc = "ready"
    /\ smpF = 0
    /\ smpY = 0
    /\ smpX = 0
    /\ flowFrames = <<>>
    /\ flowOut = <<>>
    /\ flowPc = "off"
    /\ captures = <<>>
    /\ collections = <<>>
    /\ versions = {}
    /\ capNext = 0
    /\ capError = "none"
    /\ isBinaryLoaded = FALSE
    /\ loadPromise = "unset"
    /\ wasmBinaryCache = "null"
    /\ binFetches = 0
    /\ binPc = "off"
    /\ binCalls = <<>>
    /\ binLogged = <<>>
    /\ pfType = "model"
    /\ pfOptions = NoOptions
    /\ pfPc = "off"
    /\ pfI = 0
    /\ pfStarted = <<>>
    /\ pfProgress = <<>>
    /\ pfLogged = <<>>
    /\ pfErrors = <<>>
    /\ pfSplat = 0
    /\ calls = <<>>
    /\ timers = <<>>
    /\ geomInput = NoGeom
    /\ geomNew = NoGeom
    /\ geomRef = "input"
    /\ simplification = 0
    /\ boundaries = <<>>
    /\ holeIdx = 0
    /\ meshPc = "off"
    /\ meshError = "none"
    /\ variant = "lib"
    /\ hasWorker = FALSE
    /\ worker = FALSE
    /\ geometry = EmptyCloud
    /\ geomIndex = <<>>
    /\ octree = <<>>
    /\ levels = <<>>
    /\ quality = "medium"
    /\ lodTarget = 0
    /\ lodI = 0
    /\ currentGeometry = EmptyCloud
    /\ lodPc = "off"
    /\ distance = 0
    /\ activeLOD = -1

NextLoop == SampleStart \/ SampleStep
SpecLoop == InitLoop /\ [][NextLoop]_vars

\* Two processPointCloud calls on one PointCloudProcessor (lib), the second
\* made while the first is suspended.
InitOverlap ==
    /\ variant = "lib"
    /\ hasWorker \in BOOLEAN
    /\ worker = FALSE
    /\ geometry = EmptyCloud
    /\ geomIndex = <<>>
    /\ octree = <<>>
    /\ levels = <<>>
    /\ quality = "medium"
    /\ lodTarget = 0
    /\ lodI = 0
    /\ currentGeometry = EmptyCloud
    /\ lodPc = "off"
    /\ distance = 0
    /\ activeLOD = -1
    /\ calls = [c \in Calls |-> IdleCall]
    /\ timers = <<>>
    /\ geomInput = NoGeom
    /\ geomNew = NoGeom
    /\ geomRef = "input"
    /\ simplification = 0
    /\ boundaries = <<>>
    /\ holeIdx = 0
    /\ meshPc = "off"
    /\ meshError = "none"
    /\ smpKind = "image"
    /\ smpFrames = <<>>
    /\ smpMotion = <<>>
    /\ smpDensity = 0
    /\ smpOut = NoOut
    /\ smpPc = "off"
    /\ smpF = 0
    /\ smpY = 0
    /\ smpX = 0
    /\ flowFrames = <<>>
    /\ flowOut = <<>>
    /\ flowPc = "off"
    /\ captures = <<>>
    /\ collections = <<>>
    /\ versions = {}
    /\ capNext = 0
    /\ capError = "none"
    /\ isBinaryLoaded = FALSE
    /\ loadPromise = "unset"
    /\ wasmBinaryCache = "null"
    /\ binFetches = 0
    /\ binPc = "off"
    /\ binCalls = <<>>
    /\ binLogged = <<>>
    /\ pfType = "model"
    /\ pfOptions = NoOptions
    /\ pfPc = "off"
    /\ pfI = 0
    /\ pfStarted = <<>>
    /\ pfProgress = <<>>
    /\ pfLogged = <<>>
    /\ pfErrors = <<>>
    /\ pfSplat = 0

NextOverlap ==
    \/ \E c \in Calls : OverlapProcessPointCloud(c)
    \/ \E c \in Calls : OverlapResume(c)
    \/ \E c \in Calls : OverlapWorkerReply(c)
    \/ \E c \in Calls : OverlapGenerateLODLevel(c)
    \/ \E c \in Calls : OverlapBuildSpatialIndex(c)
SpecOverlap == InitOverlap /\ [][NextOverlap]_vars

\* One processFile call on a new MediaProcessor, for a file of any media type.
InitPipeline ==
    /\ pfType \in MediaTypes
    /\ pfOptions \in ProcessingOptions
    /\ pfPc = "idle"
    /\ pfI = 0
    /\ pfStarted = <<>>
    /\ pfProgress = <<>>
    /\ pfLogged = <<>>
    /\ pfErrors = <<>>
    /\ pfSplat = 0
    /\ variant = "lib"
    /\ hasWorker = FALSE
    /\ worker = FALSE
    /\ geometry = EmptyCloud
    /\ geomIndex = <<>>
    /\ octree = <<>>
    /\ levels = <<>>
    /\ quality = "medium"
    /\ lodTarget = 0
    /\ lodI = 0
    /\ currentGeometry = EmptyCloud
    /\ lodPc = "off"
    /\ distance = 0
    /\ activeLOD = -1
    /\ calls = <<>>
    /\ timers = <<>>
    /\ geomInput = NoGeom
    /\ geomNew = NoGeom
    /\ geomRef = "input"
    /\ simplification = 0
    /\ boundaries = <<>>
    /\ holeIdx = 0
    /\ meshPc = "off"
    /\ meshError = "none"
    /\ smpKind = "image"
    /\ smpFrames = <<>>
    /\ smpMotion = <<>>
    /\ smpDensity = 0
    /\ smpOut = NoOut
    /\ smpPc = "off"
    /\ smpF = 0
    /\ smpY = 0
    /\ smpX = 0
    /\ flowFrames = <<>>
    /\ flowOut = <<>>
    /\ flowPc = "off"
    /\ captures = <<>>
    /\ collections = <<>>
    /\ versions = {}
    /\ capNext = 0
    /\ capError = "none"
    /\ isBinaryLoaded = FALSE
    /\ loadPromise = "unset"
    /\ wasmBinaryCache = "null"
    /\ binFetches = 0
    /\ binPc = "off"
    /\ binCalls = <<>>
    /\ binLogged = <<>>

NextPipeline ==
    \/ ProcessFile
    \/ StageResolved
    \/ StageRejected
    \/ SplatProgress
    \/ SplatLoad
    \/ SplatError
SpecPipeline == InitPipeline /\ [][NextPipeline]_vars

\* The module of loadLumaCoreBinary after its load, and up to MaxLoads calls.
InitLoader ==
    /\ isBinaryLoaded = FALSE
    /\ loadPromise = "unset"
    /\ wasmBinaryCache = "null"
    /\ binFetches = 0
    /\ binPc = "idle"
    /\ binCalls = <<>>
    /\ binLogged = <<>>
    /\ variant = "lib"
    /\ hasWorker = FALSE
    /\ worker = FALSE
    /\ geometry = EmptyCloud
    /\ geomIndex = <<>>
    /\ octree = <<>>
    /\ levels = <<>>
    /\ quality = "medium"
    /\ lodTarget = 0
    /\ lodI = 0
    /\ currentGeometry = EmptyCloud
    /\ lodPc = "off"
    /\ distance = 0
    /\ activeLOD = -1
    /\ calls = <<>>
    /\ timers = <<>>
    /\ geomInput = NoGeom
    /\ geomNew = NoGeom
    /\ geomRef = "input"
    /\ simplification = 0
    /\ boundaries = <<>>
    /\ holeIdx = 0
    /\ meshPc = "off"
    /\ meshError = "none"
    /\ smpKind = "image"
    /\ smpFrames = <<>>
    /\ smpMotion = <<>>
    /\ smpDensity = 0
    /\ smpOut = NoOut
    /\ smpPc = "off"
    /\ smpF = 0
    /\ smpY = 0
    /\ smpX = 0
    /\ flowFrames = <<>>
    /\ flowOut = <<>>
    /\ flowPc = "off"
    /\ captures = <<>>
    /\ collections = <<>>
    /\ versions = {}
    /\ capNext = 0
    /\ capError = "none"
    /\ pfType = "model"
    /\ pfOptions = NoOptions
    /\ pfPc = "off"
    /\ pfI = 0
    /\ pfStarted = <<>>
    /\ pfProgress = <<>>
    /\ pfLogged = <<>>
    /\ pfErrors = <<>>
    /\ pfSplat = 0

NextLoader ==
    \/ LoadLumaCoreBinary
    \/ FetchSettled
    \/ ArrayBufferSettled
    \/ CallerResumed
SpecLoader == InitLoader /\ [][NextLoader]_vars

\* A new CaptureService and any sequence of calls on it, one at a time.
InitCapture ==
    /\ captures = <<>>
    /\ collections = <<>>
    /\ versions = {}
    /\ capNext = 0
    /\ capError = "none"
    /\ variant = "lib"
    /\ hasWorker = FALSE
    /\ worker = FALSE
    /\ geometry = EmptyCloud
    /\ geomIndex = <<>>
    /\ octree = <<>>
    /\ levels = <<>>
    /\ quality = "medium"
    /\ lodTarget = 0
    /\ lodI = 0
    /\ currentGeometry = EmptyCloud
    /\ lodPc = "off"
    /\ distance = 0
    /\ activeLOD = -1
    /\ calls = <<>>
    /\ timers = <<>>
    /\ geomInput = NoGeom
    /\ geomNew = NoGeom
    /\ geomRef = "input"
    /\ simplification = 0
    /\ boundaries = <<>>
    /\ holeIdx = 0
    /\ meshPc = "off"
    /\ meshError = "none"
    /\ smpKind = "image"
    /\ smpFrames = <<>>
    /\ smpMotion = <<>>
    /\ smpDensity = 0
    /\ smpOut = NoOut
    /\ smpPc = "off"
    /\ smpF = 0
    /\ smpY = 0
    /\ smpX = 0
    /\ flowFrames = <<>>
    /\ flowOut = <<>>
    /\ flowPc = "off"
    /\ isBinaryLoaded = FALSE
    /\ loadPromise = "unset"
    /\ wasmBinaryCache = "null"
    /\ binFetches = 0
    /\ binPc = "off"
    /\ binCalls = <<>>
    /\ binLogged = <<>>
    /\ pfType = "model"
    /\ pfOptions = NoOptions
    /\ pfPc = "off"
    /\ pfI = 0
    /\ pfStarted = <<>>
    /\ pfProgress = <<>>
    /\ pfLogged = <<>>
    /\ pfErrors = <<>>
    /\ pfSplat = 0

NextCapture ==
    \/ CreateCollection
    \/ CreateCapture
    \/ UpdateCapture
    \/ DeleteCapture
    \/ CreateVersion
SpecCapture == InitCapture /\ [][NextCapture]_vars

Spec == SpecMesh


(***************************************************************************)
(* Properties of MeshProcessor (checked under SpecMesh)                    *)
(***************************************************************************)
IndexValid(g) ==
    g.indexed => \A i \in 1..Len(g.index) : g.index[i] \in 0..(Len(g.position) - 1)

\* The triangles fillHoles has appended so far: three indices for each of the
\* holeIdx - 1 boundaries it is done with, at the end of the index.
AppendedTriangle(j) ==
    LET n == Len(CurGeom.index)
        k == holeIdx - 1
    IN  {CurGeom.index[n - 3 * k + 3 * (j - 1) + c] : c \in 1..3}

Sides(index) == (1..(Len(index) \div 3)) \X (1..3)
SideEdge(index, sd) ==
    {index[3 * (sd[1] - 1) + sd[2]], index[3 * (sd[1] - 1) + (sd[2] % 3) + 1]}
MeshEdges(index) == {SideEdge(index, sd) : sd \in Sides(index)}
Incidence(index, e) == Cardinality({sd \in Sides(index) : SideEdge(index, sd) = e})

\* findBoundaries has just returned into fillHoles' local `boundaries`.
BoundariesComputed ==
    meshPc \in {"fillHole", "smooth"} /\ CurGeom.indexed /\ holeIdx = 1

\* No triangle of the index buffer names a vertex twice.
NonDegenerate(index) ==
    \A sd \in Sides(index) : Cardinality(SideEdge(index, sd)) = 2

\* C10 as stated: findBoundaries returns an empty sequence if and only if
\* every edge of the mesh has incidence exactly 2 (stated here for meshes
\* without degenerate triangles, where the incidence of an edge is the number
\* of triangles on it).
C10_Original ==
    (BoundariesComputed /\ NonDegenerate(CurGeom.index)) =>
        (boundaries = <<>> <=>
            \A e \in MeshEdges(CurGeom.index) : Incidence(CurGeom.index, e) = 2)

\* C10 amended: findBoundaries returns an empty sequence if and only if no
\* edge of the mesh has incidence exactly 1, and its entries are exactly the
\* edges of incidence 1.
C10_EmptyIffNoIncidenceOne ==
    BoundariesComputed =>
        /\ boundaries = <<>> <=>
              \A e \in MeshEdges(CurGeom.index) : Incidence(CurGeom.index, e) # 1
        /\ {Range(boundaries[k]) : k \in 1..Len(boundaries)}
              = {e \in MeshEdges(CurGeom.index) : Incidence(CurGeom.index, e) = 1}

\* findBoundaries returned nothing for a mesh that has an edge on three or
\* more triangle sides.
C10_Witness ==
    /\ BoundariesComputed
    /\ boundaries = <<>>
    /\ \E e \in MeshEdges(CurGeom.index) : Incidence(CurGeom.index, e) >= 3

\* C11 as stated: when fillHoles' loop meets a boundary of fewer than 3
\* vertices, that iteration appends no triangle, raises no error, and the
\* loop goes on to the remaining boundaries.
C11_Original ==
    [][(meshPc = "fillHole" /\ Len(boundaries[holeIdx]) < 3) =>
          /\ meshError' = "none"
          /\ CurGeom' = CurGeom
          /\ holeIdx' = holeIdx + 1
          /\ meshPc' = (IF holeIdx = Len(boundaries) THEN "smooth" ELSE "fillHole")]_vars

\* simplifyGeometry has just returned a new geometry for the indexed input;
\* the target it computed, and the triangle count of an index buffer.
Decimated == meshPc = "fillHoles" /\ geomRef = "new"
TargetTriangleCount ==
    ((Len(geomInput.index) \div 3) * (100 - simplification)) \div 100
TriangleCount(g) == Len(g.index) \div 3

\* C12: for an indexed mesh and a target of 0 or more triangles,
\* simplifyGeometry returns without an error a mesh with at most as many
\* triangles as its input and at most as many as the target.
C12_Decimate ==
    (Decimated /\ TargetTriangleCount >= 0) =>
        /\ meshError = "none"
        /\ geomNew.indexed
        /\ TriangleCount(geomNew) <= TriangleCount(geomInput)
        /\ TriangleCount(geomNew) <= TargetTriangleCount

\* simplifyGeometry has returned for a mesh of two or more triangles and a
\* target of 0 or 1 triangle.
C12_Witness ==
    /\ Decimated
    /\ TriangleCount(geomInput) >= 2
    /\ TargetTriangleCount \in {0, 1}
    /\ TriangleCount(geomNew) = 0

\* C13 as stated: simplifyGeometry with a target of at least the current
\* triangle count returns a mesh with the same vertices and the same index
\* sequence as its input.
C13_Original ==
    (Decimated /\ TargetTriangleCount >= TriangleCount(geomInput)) =>
        /\ meshError = "none"
        /\ geomNew.position = geomInput.position
        /\ geomNew.index = geomInput.index

\* smoothGeometry has returned; the positions before it are InputPositions
\* (no earlier stage writes a position).
Smoothed == meshPc = "done"

\* C14 as stated: after smoothGeometry every vertex without an edge-neighbour
\* is at its original position; when no vertex has a neighbour the positions
\* equal the input positions.
C14_Original ==
    Smoothed =>
        /\ \A i \in 1..Len(CurGeom.position) :
              findVertexNeighbors(CurGeom.index, i - 1) = {} =>
                  CurGeom.position[i] = InputPositions[i]
        /\ (\A i \in 1..Len(CurGeom.position) :
              findVertexNeighbors(CurGeom.index, i - 1) = {}) =>
                  CurGeom.position = InputPositions

\* C15 as stated: on a mesh without an index buffer fillHoles signals
\* UnindexedMesh (once it is over the pipeline is not past it without that
\* error), so does smoothGeometry, and the mesh is left as it was.
C15_Original ==
    (~geomInput.indexed /\ meshPc \in {"smooth", "done", "failed"}) =>
        /\ meshError = "UnindexedMesh"
        /\ geomInput.position = InputPositions
        /\ geomInput.index = <<>>

\* C16 as stated: no step of optimizeMesh changes the mesh the caller passed
\* in, so that stopping after any step, or a failure, leaves it as it was.
C16_Original == [][geomInput' = geomInput]_vars

C25_PreSmoothing ==
    Smoothed =>
        \A i \in 1..Len(CurGeom.position) :
            LET N == findVertexNeighbors(CurGeom.index, i - 1)
                new == CurGeom.position[i]
            IN  IF N = {} THEN new.nan
                ELSE /\ ~new.nan
                     /\ Cardinality(N) * new.x = SumOver(N, InputPositions, 1)
                     /\ Cardinality(N) * new.y = SumOver(N, InputPositions, 2)
                     /\ Cardinality(N) * new.z = SumOver(N, InputPositions, 3)

\* smoothGeometry has returned for the mesh of two triangles (0, 1, 2): vertex
\* 0 is at the centroid (6, 6, 0) of the old vertices 1 and 2, and vertex 1 at
\* the centroid (0, 6, 0) of the old vertices 0 and 2.
C25_Witness ==
    /\ Smoothed
    /\ geomRef = "input"
    /\ geomInput.index = <<0, 1, 2, 0, 1, 2>>
    /\ geomInput.position[1] = Vec(6, 6, 0)
    /\ geomInput.position[2] = Vec(0, 6, 0)

(***************************************************************************)
(* Properties of PointCloudProcessor (checked under SpecLOD)               *)
(***************************************************************************)
\* processPointCloud has returned: this.levels is the result of
\* generateLODLevels for the cloud in this.geometry.
LevelsDone == lodPc = "done"
InputSize == Len(geometry.position)

\* C2 as stated: for a non-empty input cloud every generated level holds at
\* least one point; a single-point cloud and 4 levels give 4 levels of exactly
\* 1 point.
C2_Original ==
    (LevelsDone /\ InputSize >= 1) =>
        /\ \A i \in 1..Len(levels) : Len(levels[i].position) >= 1
        /\ (InputSize = 1 /\ Len(levels) = 4) =>
              \A i \in 1..4 : Len(levels[i].position) = 1

\* C3 as stated: level 0 is the unmodified input cloud.
C3_Original ==
    (LevelsDone /\ Len(levels) >= 1) =>
        /\ levels[1].position = geometry.position
        /\ levels[1].color = geometry.color
        /\ levels[1].tail = 0

\* Every 2^i-th point of the input cloud, in order.
EveryNth(array, step) ==
    [k \in 1..((Len(array) + step - 1) \div step) |-> array[(k - 1) * step + 1]]

\* C4 as stated: for i >= 1, level i is exactly the points of the input cloud
\* at original indices 0, 2^i, 2 * 2^i, ... (stated here for the levels that
\* hold a point; the empty ones are the matter of C2).
C4_Original ==
    LevelsDone =>
        \A i \in 1..(Len(levels) - 1) :
            Len(levels[i + 1].position) >= 1 =>
                /\ levels[i + 1].position = EveryNth(geometry.position, Pow2(i))
                /\ levels[i + 1].color = EveryNth(geometry.color, Pow2(i))

\* C5: in this.levels the point count of each level is at most the point
\* count of the level before it.
C5_Monotonic ==
    \A i \in 1..(Len(levels) - 1) :
        Len(levels[i + 1].position) <= Len(levels[i].position)

\* generateLODLevels (lib) has finished with a level that is strictly smaller
\* than the one before it and not empty.
C5_Witness ==
    /\ LevelsDone
    /\ variant = "lib"
    /\ Len(levels) >= 2
    /\ Len(levels[2].position) >= 1
    /\ Len(levels[2].position) < Len(levels[1].position)

\* updateLOD has run on the finished levels and they have not changed since.
Selected == LevelsDone /\ activeLOD # -1 /\ Len(levels) >= 1
VisibleLevels == {i \in 1..Len(levels) : levels[i].visible}

\* C6 as stated: after updateLOD on the levels of point-cloud-processor.ts
\* (2, 4 or 6 of them) exactly one level is visible.
C6_Original == (Selected /\ variant = "lib") => Cardinality(VisibleLevels) = 1

\* The ladder of the claim for n levels, each rung kept inside 0..n-1.
Ladder(d, n) ==
    IF d > 50 THEN n - 1
    ELSE IF d > 20 THEN Max(n - 2, 0)
    ELSE IF d > 10 THEN n \div 2
    ELSE IF d > 5 THEN Min(1, n - 1)
    ELSE 0

\* C7 as stated: the level selected is the rung of the ladder relative to the
\* generated sequence, and is a valid index into it.
C7_Original ==
    Selected =>
        /\ activeLOD = Ladder(distance, Len(levels))
        /\ activeLOD \in 0..(Len(levels) - 1)

(***************************************************************************)
(* Properties of frame sampling (checked under SpecSampler)                *)
(***************************************************************************)
Sampled == smpPc = "done" /\ smpDensity >= 1 /\ Len(smpFrames) = 1
TheFrame == smpFrames[1]

\* The position the claims give the pixel (px, py): x' = (px - w/2) / scale,
\* y' = (h/2 - py) / scale.
ExpectedX(px) == Rat(2 * px - TheFrame.width, 2 * Scale)
ExpectedY(py) == Rat(TheFrame.height - 2 * py, 2 * Scale)

\* The pixels visited for stride s, row by row.
GridCols(s) == (TheFrame.width + s - 1) \div s
GridRows(s) == (TheFrame.height + s - 1) \div s
Visited(s) ==
    [k \in 1..(GridRows(s) * GridCols(s)) |->
        <<((k - 1) % GridCols(s)) * s, ((k - 1) \div GridCols(s)) * s>>]

AlphaByte(p) == TheFrame.data[p[2] * TheFrame.width + p[1] + 1].a
Emitted(p) ==
    \E k \in 1..Len(smpOut.points) :
        smpOut.points[k].x = ExpectedX(p[1]) /\ smpOut.points[k].y = ExpectedY(p[2])

\* C8: a visited pixel is dropped if and only if its alpha byte / 255 is
\* strictly less than 0.5; a 2x2 frame sampled at stride 1 with exactly one
\* pixel of alpha 0.2 (51 / 255), the others at or above 0.5, gives 3 points.
C8_AlphaDrop ==
    Sampled =>
        /\ \A k \in 1..Len(Visited(smpDensity)) :
              LET p == Visited(smpDensity)[k]
              IN  (~Emitted(p)) <=> (2 * AlphaByte(p) < 255)
        /\ (/\ TheFrame.width = 2 /\ TheFrame.height = 2 /\ smpDensity = 1
            /\ Cardinality({q \in 1..4 : TheFrame.data[q].a = 51}) = 1
            /\ Cardinality({q \in 1..4 : TheFrame.data[q].a >= 128}) = 3)
           => Len(smpOut.points) = 3

\* A 2x2 frame with one pixel of alpha 51 and one of alpha 128 has been
\* sampled at stride 1.
C8_Witness ==
    /\ Sampled
    /\ TheFrame.width = 2 /\ TheFrame.height = 2 /\ smpDensity = 1
    /\ Cardinality({q \in 1..4 : TheFrame.data[q].a = 51}) = 1
    /\ \E q \in 1..4 : TheFrame.data[q].a = 128
    /\ Len(smpOut.points) = 3

\* C9: the points emitted are those of the retained visited pixels, in
\* row-major order, at x' = (px - w/2) / scale and y' = (h/2 - py) / scale;
\* a 4x4 all-opaque frame at stride 2 gives the 4 points of the pixels
\* (0,0), (2,0), (0,2), (2,2).
C9_RowMajor ==
    Sampled =>
        LET Kept(p) == 2 * AlphaByte(p) >= 255
            retained == SelectSeq(Visited(smpDensity), Kept)
        IN  /\ Len(smpOut.points) = Len(retained)
            /\ Len(smpOut.colors) = Len(retained)
            /\ \A k \in 1..Len(retained) :
                  /\ smpOut.points[k].x = ExpectedX(retained[k][1])
                  /\ smpOut.points[k].y = ExpectedY(retained[k][2])
            /\ (/\ TheFrame.width = 4 /\ TheFrame.height = 4 /\ smpDensity = 2
                /\ \A q \in 1..16 : TheFrame.data[q].a = 255)
               => retained = <<<<0, 0>>, <<2, 0>>, <<0, 2>>, <<2, 2>>>>

\* The 4x4 all-opaque frame has been sampled at stride 2 into 4 points.
C9_Witness ==
    /\ Sampled
    /\ TheFrame.width = 4 /\ TheFrame.height = 4 /\ smpDensity = 2
    /\ \A q \in 1..16 : TheFrame.data[q].a = 255
    /\ Len(smpOut.points) = 4

\* reconstruct3DScene has returned for a clip of one or more frames. The
\* frames of a clip give the same number of points each, so point k comes
\* from frame FrameOf(k).
Reconstructed == smpPc = "done" /\ smpKind = "video" /\ smpFrames # <<>>
PointsPerFrame == Len(smpOut.points) \div Len(smpFrames)
FrameOf(k) == ((k - 1) \div PointsPerFrame) + 1
MeanColor(k) ==
    RatDiv(RatAdd(RatAdd(smpOut.colors[k][1], smpOut.colors[k][2]),
                  smpOut.colors[k][3]), R(3))

\* C17: every point of a frame that has a motion vector gets
\* z = depth * mean(r, g, b) of its own colour, with depth = |motion| * 10 the
\* same for all points of the frame; the points of a frame without a motion
\* vector get no depth from motion (z = 0).
C17_MotionDepth ==
    Reconstructed =>
        \A k \in 1..Len(smpOut.points) :
            IF FrameOf(k) <= Len(smpMotion)
            THEN smpOut.points[k].z =
                    RatMul(R(smpMotion[FrameOf(k)] * DepthScale), MeanColor(k))
            ELSE smpOut.points[k].z = R(0)

\* A clip of two frames with a motion vector of length 1 for the first only:
\* a point of the first frame has a depth, the points of the second have none.
C17_Witness ==
    /\ Reconstructed
    /\ Len(smpFrames) = 2
    /\ smpMotion = <<1>>
    /\ Len(smpOut.points) >= 2
    /\ \E k \in 1..Len(smpOut.points) :
          FrameOf(k) = 1 /\ smpOut.points[k].z # R(0)
    /\ \A k \in 1..Len(smpOut.points) :
          FrameOf(k) = 2 => smpOut.points[k].z = R(0)

\* C19 as stated: reconstruct3DScene on an empty frames array does not return
\* a point cloud.
C19_Original == ~(smpPc = "done" /\ smpKind = "video" /\ smpFrames = <<>>)

(***************************************************************************)
(* Properties of analyzeMotion (checked under SpecMotion)                  *)
(***************************************************************************)
\* analyzeMotion has returned; vector i is that of frames i and i + 1.
FlowDone == flowPc = "done"
RedDiff(i, p) == Abs(flowFrames[i + 1].data[p] - flowFrames[i].data[p])
Changed(i) ==
    {p \in 1..(flowFrames[i].width * flowFrames[i].height) : RedDiff(i, p) > 30}

\* Twice the offset of pixel p from the centre of frame i, and twice the sum
\* of the offsets of a set of pixels.
Offset2(i, p) ==
    <<2 * ((p - 1) % flowFrames[i].width) - flowFrames[i].width,
      2 * ((p - 1) \div flowFrames[i].width) - flowFrames[i].height>>
RECURSIVE SumOffset2(_, _, _)
SumOffset2(S, i, axis) ==
    IF S = {} THEN 0
    ELSE LET p == CHOOSE q \in S : TRUE
         IN  Offset2(i, p)[axis] + SumOffset2(S \ {p}, i, axis)

\* C18: for a frame pair in which no pixel's red channel differs by more than
\* 30, or in which the offsets of the changed pixels sum to (0, 0),
\* calculateOpticalFlow returns the zero vector (divided by 1, no error);
\* otherwise it returns a unit vector with z = 0 in the direction of the
\* accumulated (dx, dy).
C18_OpticalFlow ==
    FlowDone =>
        \A i \in 1..Len(flowOut) :
            LET v == flowOut[i]
                dx2 == SumOffset2(Changed(i), i, 1)
                dy2 == SumOffset2(Changed(i), i, 2)
            IN  IF Changed(i) = {} \/ (dx2 = 0 /\ dy2 = 0)
                THEN /\ v.x = R(0) /\ v.y = R(0) /\ v.z = R(0)
                     /\ v.divisorSq = R(1)
                ELSE /\ v.z = R(0)
                     /\ RatMul(v.x, R(dy2)) = RatMul(v.y, R(dx2))
                     /\ RatGt(RatAdd(RatMul(v.x, R(dx2)), RatMul(v.y, R(dy2))), R(0))
                     /\ v.divisorSq = RatAdd(RatMul(v.x, v.x), RatMul(v.y, v.y))

\* analyzeMotion has returned a vector that is not zero for a pair of frames
\* in which one pixel differs by exactly 30 and another by more.
C18_Witness ==
    /\ FlowDone
    /\ \E i \in 1..Len(flowOut) :
          /\ \E p \in 1..Len(flowFrames[i].data) : RedDiff(i, p) = 30
          /\ Changed(i) # {}
          /\ flowOut[i].x # R(0)

(***************************************************************************)
(* Properties of the video pipeline (checked under SpecVideo)              *)
(***************************************************************************)
\* The length of the motion of frames k and k + 1: 1 when the offsets of the
\* pixels whose red changed by more than 30 do not sum to (0, 0), else 0.
PairMotion(k) ==
    IF SumOffset2(Changed(k), k, 1) = 0 /\ SumOffset2(Changed(k), k, 2) = 0
    THEN 0 ELSE 1

\* C27: analyzeMotion on n frames returns max(0, n - 1) vectors, vector k
\* being that of frames k and k + 1; reconstruct3DScene gives the points of
\* frame k the depth of vector k, and the points of the last frame (which has
\* no vector) z = 0.
C27_FramePairing ==
    /\ FlowDone =>
          /\ Len(flowOut) = Max(0, Len(flowFrames) - 1)
          /\ \A k \in 1..Len(flowOut) : vectorLength(flowOut[k]) = PairMotion(k)
    /\ Reconstructed =>
          \A j \in 1..Len(smpOut.points) :
              IF FrameOf(j) < Len(smpFrames)
              THEN smpOut.points[j].z =
                      RatMul(R(PairMotion(FrameOf(j)) * DepthScale), MeanColor(j))
              ELSE smpOut.points[j].z = R(0)

\* The pipeline has finished on a clip of two frames whose motion is not
\* zero: the points of the first frame have a depth, those of the last none.
C27_Witness ==
    /\ Reconstructed
    /\ Len(smpFrames) = 2
    /\ Len(flowOut) = 1
    /\ PairMotion(1) = 1
    /\ \E j \in 1..Len(smpOut.points) :
          FrameOf(j) = 1 /\ smpOut.points[j].z # R(0)
    /\ \A j \in 1..Len(smpOut.points) :
          FrameOf(j) = 2 => smpOut.points[j].z = R(0)

(***************************************************************************)
(* Properties of the sampling loops (checked under SpecLoop)               *)
(***************************************************************************)
\* C28 as stated, in the form a finite run refutes: frame sampling terminates
\* for every pointCloudDensity because every pass through the loops of a
\* frame moves (y, x) forward, towards the height and the width that end them.
C28_Original ==
    [][(smpPc = "loop" /\ smpPc' = "loop" /\ smpF' = smpF) =>
          \/ smpY' > smpY
          \/ smpY' = smpY /\ smpX' > smpX]_vars

(***************************************************************************)
(* Properties of LOD generation step by step (checked under SpecLOD)       *)
(***************************************************************************)
\* Level k (0-based) of a cloud of n points as the ratios 1/2, 1/4, 1/8, ...
\* applied one after the other give it: every 2^T-th point, T = 1 + 2 + ... +
\* (k + 1), and floor(n / 2^T) of them.
LevelStride(k) == Pow2(((k + 1) * (k + 2)) \div 2)
BuiltFrom(cloud, lv, k) ==
    /\ Len(lv.position) = Len(cloud.position) \div LevelStride(k)
    /\ Len(lv.color) = Len(lv.position)
    /\ lv.tail = 0
    /\ \A j \in 1..Len(lv.position) :
           /\ lv.position[j] = cloud.position[(j - 1) * LevelStride(k) + 1]
           /\ lv.color[j] = cloud.color[(j - 1) * LevelStride(k) + 1]
BuiltLevel(lv, k) == BuiltFrom(geometry, lv, k)

\* C22: at every suspension of generateLODLevels (before level lodI is built)
\* this.levels holds exactly the levels 0..lodI-1, each fully built and in
\* that order, whatever updateLOD calls ran in between; once it has completed,
\* this.levels holds exactly levelCount levels in the order 0..levelCount-1.
C22_LevelsAtSuspension ==
    (variant = "lib" /\ lodPc \in {"gen", "index", "done"}) =>
        /\ Len(levels) = lodI
        /\ lodI <= lodTarget
        /\ lodPc \in {"index", "done"} => lodI = getLODLevels(quality)
        /\ \A k \in 1..Len(levels) : BuiltLevel(levels[k], k - 1)

\* C22's case: generation suspended after two levels, the first of them not
\* empty, with an updateLOD call made since the last level was pushed.
C22_Witness ==
    /\ variant = "lib"
    /\ lodPc = "gen"
    /\ lodI = 2
    /\ levels[1].position # <<>>
    /\ activeLOD # -1

\* C23 as stated: within a run of processPointCloud the spatial index is built
\* once, from the run's point buffer, and is complete before LOD generation
\* begins: while levels are being generated the octree already holds the
\* points of this.geometry, and the return leaves it so.
C23_Original == lodPc \in {"gen", "done"} => octree = geometry.position

(***************************************************************************)
(* Properties of overlapping processPointCloud calls (under SpecOverlap)   *)
(***************************************************************************)
BothCompleted == \A c \in Calls : calls[c].pc = "done"

\* C26 as stated: once two overlapping processPointCloud calls have both
\* completed, this.levels holds exactly the levels of one of them: as many as
\* that call's quality asks for, level 0 first, each built from that call's
\* cloud, and none of the other call's.
C26_Original ==
    BothCompleted =>
        \E c \in Calls :
            /\ Len(levels) = getLODLevels(calls[c].quality)
            /\ \A k \in 1..Len(levels) : BuiltFrom(calls[c].cloud, levels[k], k - 1)

(***************************************************************************)
(* Properties of MediaProcessor.processFile (checked under SpecPipeline)   *)
(***************************************************************************)
\* The stage whose processor rejected, as the inner catch logged it.
StageFailed == \E k \in 1..Len(pfLogged) : pfLogged[k] # "Processing failed"
CreatingReported ==
    \E k \in 1..Len(pfProgress) : pfProgress[k].message = "Creating 3D model..."

\* C21: the stage processors are called one at a time in the declared order
\* (the calls made so far are the first pfI stages, each once); once a stage
\* has failed, it is the last one that was called, the step that creates the
\* splat was not reached, and processFile has ended in failure with exactly
\* one error thrown to the caller.
C21_StagesInOrder ==
    /\ pfStarted = SubSeq(processingStages(pfType), 1, pfI)
    /\ pfPc = "stage" => pfI >= 1
    /\ StageFailed =>
          /\ pfPc = "failed"
          /\ pfLogged = <<processingStages(pfType)[Len(pfStarted)], "Processing failed">>
          /\ pfSplat = 0
          /\ ~CreatingReported
          /\ pfErrors = <<"Failed to process media">>

\* C21's case: the second stage of a model file failed after the first one
\* had resolved.
C21_Witness ==
    /\ StageFailed
    /\ pfType = "model"
    /\ pfStarted = processingStages("model")
    /\ pfPc = "failed"

(***************************************************************************)
(* Properties of loadLumaCoreBinary (checked under SpecLoader)             *)
(***************************************************************************)
\* C29: loadLumaCoreBinary is single-flight. At most one fetch is ever
\* issued, whatever the number and the interleaving of the calls; all callers
\* resumed so far got the same result, and none is resumed while the fetch is
\* pending; once the fetch has failed every caller gets null and the fetch
\* count stays at one; and isBinaryLoaded = true implies that the cache holds
\* the buffer that was fetched, which is what the promise resolved to.
C29_SingleFlight ==
    /\ binFetches <= 1
    /\ binFetches = 0 <=> binCalls = <<>>
    /\ \A j, k \in 1..Len(binCalls) :
          (binCalls[j].got # "pending" /\ binCalls[k].got # "pending")
              => binCalls[j].got = binCalls[k].got
    /\ loadPromise = "pending" => \A k \in 1..Len(binCalls) : binCalls[k].got = "pending"
    /\ loadPromise = "null" =>
          /\ binFetches = 1
          /\ ~isBinaryLoaded
          /\ \A k \in 1..Len(binCalls) : binCalls[k].got \in {"pending", "null"}
    /\ isBinaryLoaded => (wasmBinaryCache \in Buffers /\ loadPromise = wasmBinaryCache)

\* C29's case: a call made while the fetch was pending and calls made after
\* it failed were all resumed with null, after a single fetch.
C29_Witness ==
    /\ Len(binCalls) >= 3
    /\ loadPromise = "null"
    /\ \A k \in 1..3 : binCalls[k].got = "null"

(***************************************************************************)
(* Properties of CaptureService (checked under SpecCapture)                *)
(***************************************************************************)
\* C30 as stated: after any sequence of createCapture, updateCapture and
\* deleteCapture calls, every capture id listed in a collection names a stored
\* capture and is listed there once, and a stored capture whose `collection`
\* names an existing collection is listed in that collection.
C30_Original ==
    /\ \A c \in DOMAIN collections :
          /\ \A k \in 1..Len(collections[c]) : collections[c][k] \in DOMAIN captures
          /\ \A j, k \in 1..Len(collections[c]) :
                collections[c][j] = collections[c][k] => j = k
    /\ \A id \in DOMAIN captures :
          captures[id] \in DOMAIN collections => Includes(collections[captures[id]], id)

====
